---- MODULE Spec2Model ----
(***************************************************************************)
(* Model of python/lightrag_wrapper.py: the JSON-RPC bridge over           *)
(* stdin/stdout (LightRAGWrapper.run, handle_request), the eight handlers  *)
(* and the lazy initialisation of the wrapped engine.                      *)
(*                                                                         *)
(* Python values are modelled as tagged records ("J-values"):              *)
(*   None -> [t |-> "null"], bool, int, str, list, dict.                   *)
(* A str is a sequence of atoms; an atom is a run of plain text or one of  *)
(* the characters json.dumps has to escape (LF, QUOTE, BSLASH).            *)
(***************************************************************************)
EXTENDS Integers, Sequences, FiniteSets, TLC

(* ---------------------------- bounds ----------------------------------- *)
\* number of input lines the environment supplies before end-of-stream
MaxLines == 2

(* ------------------------- program constants --------------------------- *)
PARSE_ERROR == -32700
INTERNAL_ERROR == -32603

(* ----------------------------- J-values -------------------------------- *)
JNull == [t |-> "null"]
JBool(b) == [t |-> "bool", b |-> b]
JInt(n) == [t |-> "int", n |-> n]
JStr(s) == [t |-> "str", s |-> s]
JList(l) == [t |-> "list", l |-> l]
JObj(o) == [t |-> "obj", o |-> o]

LF == "\n"
QUOTE == "\""
BSLASH == "\\"

\* dict.get(key, default)
Get(d, key, default) == IF key \in DOMAIN d.o THEN d.o[key] ELSE default

\* str(x) for the values that reach an f-string in the wrapper
PyStr(v) ==
  CASE v.t = "null" -> <<"None">>
    [] v.t = "str" -> v.s
    [] v.t = "int" -> <<ToString(v.n)>>
    [] v.t = "bool" -> IF v.b THEN <<"True">> ELSE <<"False">>
    [] OTHER -> <<"<object>">>

(* ----------------------------- json.dumps ------------------------------ *)
\* one atom of a str inside a JSON string literal: json.dumps escapes the
\* control character LF, the quote and the backslash
EscapeAtomKeepsLF(a) ==
  CASE a = QUOTE -> <<BSLASH, QUOTE>>
    [] a = BSLASH -> <<BSLASH, BSLASH>>
    [] OTHER -> <<a>>

EscapeAtom(a) ==
  CASE a = LF -> <<BSLASH, "n">>
    [] a = QUOTE -> <<BSLASH, QUOTE>>
    [] a = BSLASH -> <<BSLASH, BSLASH>>
    [] OTHER -> <<a>>

RECURSIVE EscapeStr(_)
EscapeStr(s) == IF s = <<>> THEN <<>> ELSE EscapeAtom(Head(s)) \o EscapeStr(Tail(s))

DumpsStr(s) == <<QUOTE>> \o EscapeStr(s) \o <<QUOTE>>

RECURSIVE Dumps(_), DumpsItems(_), DumpsMembers(_, _)
\* json.dumps(v) with the default separators, as a sequence of atoms
Dumps(v) ==
  CASE v.t = "null" -> <<"null">>
    [] v.t = "bool" -> IF v.b THEN <<"true">> ELSE <<"false">>
    [] v.t = "int" -> <<ToString(v.n)>>
    [] v.t = "str" -> DumpsStr(v.s)
    [] v.t = "list" -> <<"[">> \o DumpsItems(v.l) \o <<"]">>
    [] v.t = "obj" -> <<"{">> \o DumpsMembers(v.o, DOMAIN v.o) \o <<"}">>

DumpsItems(l) ==
  IF l = <<>> THEN <<>>
  ELSE Dumps(Head(l)) \o (IF Tail(l) = <<>> THEN <<>> ELSE <<", ">>) \o DumpsItems(Tail(l))

DumpsMembers(o, ks) ==
  IF ks = {} THEN <<>>
  ELSE LET k == CHOOSE x \in ks : TRUE
       IN DumpsStr(<<k>>) \o <<": ">> \o Dumps(o[k])
          \o (IF ks = {k} THEN <<>> ELSE <<", ">>) \o DumpsMembers(o, ks \ {k})

(* ------------------------- exceptions and outcomes --------------------- *)
\* the outcome of a call: a returned value or a raised exception, together
\* with the adapter fields (rag, _initialized) the call leaves behind, the
\* handler whose body ran and the calls made into the engine
Return(value, a) ==
  [raised |-> FALSE, exc |-> "", msg |-> <<>>, value |-> value, a |-> a,
   handler |-> "", calls |-> <<>>]
Raise(exc, msg, a) ==
  [raised |-> TRUE, exc |-> exc, msg |-> msg, value |-> JNull, a |-> a,
   handler |-> "", calls |-> <<>>]
\* one call into the engine: the operation and its argument, a str for
\* ainsert and the query with its QueryParam for aquery
Call(op, arg) == [op |-> op, arg |-> arg]
\* the same outcome, reached after the given engine calls
After(calls, o) == [o EXCEPT !.calls = calls \o @]
\* the same outcome, produced by the body of the named handler
Invoked(name, o) == [o EXCEPT !.handler = name]

(* ------------------------------ file system ---------------------------- *)
\* the paths the environment knows: one readable file, one that exists but
\* cannot be decoded as UTF-8, and one that does not exist
FILE_A == <<"a.txt">>
FILE_BAD == <<"bad.bin">>
FILE_MISSING == <<"missing.txt">>
PathExists(p) == p \in {FILE_A, FILE_BAD}
PathReadable(p) == p = FILE_A

(* ------------------------------ initialize ----------------------------- *)
\* Python truthiness of a value: None, "", [], {}, 0 and False are falsy
Truthy(v) ==
  /\ v.t # "null"
  /\ ~(v.t = "str" /\ v.s = <<>>)
  /\ ~(v.t = "list" /\ v.l = <<>>)
  /\ ~(v.t = "obj" /\ DOMAIN v.o = {})
  /\ ~(v.t = "int" /\ v.n = 0)
  /\ ~(v.t = "bool" /\ ~v.b)

\* str(Path(p)) for a path given as its atoms: the leading "./" and a
\* trailing "/" are dropped
RECURSIVE PathStr(_)
PathStr(p) ==
  IF Len(p) >= 3 /\ p[1] = "." /\ p[2] = "/" THEN PathStr(SubSeq(p, 3, Len(p)))
  ELSE IF Len(p) >= 2 /\ p[Len(p)] = "/" THEN PathStr(SubSeq(p, 1, Len(p) - 1))
  ELSE p

\* storage_kwargs chosen from the configuration and the importable modules
\* graph storage chosen on the endpoint alone, whatever the password
GraphStorageUriOnly(cfg, mods) ==
  IF Truthy(cfg.neo4j_uri) /\ mods.neo4j
  THEN "Neo4JStorage" ELSE "default"

GraphStorage(cfg, mods) ==
  IF Truthy(cfg.neo4j_uri) /\ Truthy(cfg.neo4j_password) /\ mods.neo4j
  THEN "Neo4JStorage" ELSE "default"

VectorStorage(cfg, mods) ==
  IF Truthy(cfg.milvus_address) /\ mods.milvus
  THEN "MilvusVectorDBStorage" ELSE "default"

\* the LightRAG instance built by the n-th successful construction
NewRag(n, cfg, mods) ==
  [instance |-> n,
   graph_storage |-> GraphStorage(cfg, mods),
   vector_storage |-> VectorStorage(cfg, mods)]

\* initialize without its `if self._initialized: return`
initializeAlways(a, cfg, mods, eng) ==
  IF eng.ctor = "raise"
  THEN After(<<Call("LightRAG", <<>>)>>, Raise("RuntimeError", <<"engine construction failed">>, a))
  ELSE After(<<Call("LightRAG", <<>>)>>,
             Return(JNull,
                    [rag |-> NewRag(a.constructed + 1, cfg, mods),
                     initialized |-> TRUE,
                     constructed |-> a.constructed + 1]))

\* initialize that sets self._initialized before it constructs the engine
initializeFlagFirst(a, cfg, mods, eng) ==
  IF a.initialized THEN Return(JNull, a)
  ELSE IF eng.ctor = "raise"
       THEN After(<<Call("LightRAG", <<>>)>>,
                  Raise("RuntimeError", <<"engine construction failed">>,
                        [a EXCEPT !.initialized = TRUE]))
       ELSE After(<<Call("LightRAG", <<>>)>>,
                  Return(JNull,
                         [rag |-> NewRag(a.constructed + 1, cfg, mods),
                          initialized |-> TRUE,
                          constructed |-> a.constructed + 1]))

\* initialize without the `except ImportError` fallbacks: a configured
\* backend whose module is missing makes it raise
initializeImportRaises(a, cfg, mods, eng) ==
  IF a.initialized THEN Return(JNull, a)
  ELSE IF \/ (Truthy(cfg.neo4j_uri) /\ Truthy(cfg.neo4j_password) /\ ~mods.neo4j)
          \/ (Truthy(cfg.milvus_address) /\ ~mods.milvus)
       THEN Raise("ModuleNotFoundError", <<"No module named 'lightrag.kg'">>, a)
  ELSE IF eng.ctor = "raise"
       THEN After(<<Call("LightRAG", <<>>)>>, Raise("RuntimeError", <<"engine construction failed">>, a))
       ELSE After(<<Call("LightRAG", <<>>)>>,
                  Return(JNull,
                         [rag |-> NewRag(a.constructed + 1, cfg, mods),
                          initialized |-> TRUE,
                          constructed |-> a.constructed + 1]))

\* a = [rag, initialized, constructed]: self.rag, self._initialized and the
\* number of LightRAG instances constructed so far; eng.ctor says whether
\* LightRAG(...) raises
\* an initialize that gives up after a failed construction: the failure is
\* counted and later calls raise without constructing again
initializeGivesUp(a, cfg, mods, eng) ==
  IF a.initialized THEN Return(JNull, a)
  ELSE IF a.constructed > 0
       THEN Raise("RuntimeError", <<"engine construction failed">>, a)
       ELSE IF eng.ctor = "raise"
       THEN After(<<Call("LightRAG", <<>>)>>,
                  Raise("RuntimeError", <<"engine construction failed">>,
                        [a EXCEPT !.constructed = a.constructed + 1]))
       ELSE After(<<Call("LightRAG", <<>>)>>,
                  Return(JNull,
                         [rag |-> NewRag(a.constructed + 1, cfg, mods),
                          initialized |-> TRUE,
                          constructed |-> a.constructed + 1]))

initialize(a, cfg, mods, eng) ==
  IF a.initialized THEN Return(JNull, a)
  ELSE IF eng.ctor = "raise"
       THEN After(<<Call("LightRAG", <<>>)>>, Raise("RuntimeError", <<"engine construction failed">>, a))
       ELSE After(<<Call("LightRAG", <<>>)>>,
                  Return(JNull,
                         [rag |-> NewRag(a.constructed + 1, cfg, mods),
                          initialized |-> TRUE,
                          constructed |-> a.constructed + 1]))

(* ------------------------------- handlers ------------------------------ *)
\* a ping that ensures readiness first, as the other handlers do
pingInitializes(a) ==
  IF a.initialized THEN Return(JStr(<<"pong">>), a)
  ELSE After(<<Call("LightRAG", <<>>)>>,
             Return(JStr(<<"pong">>),
                    [rag |-> [instance |-> a.constructed + 1,
                              graph_storage |-> "default", vector_storage |-> "default"],
                     initialized |-> TRUE,
                     constructed |-> a.constructed + 1]))

ping(a) == Return(JStr(<<"pong">>), a)

\* the loop of index_files over file_paths[i..], with the counters and the
\* engine calls so far; eng.ins[i] is the outcome of the i-th path's
\* rag.ainsert, whose argument is the content of that file
RECURSIVE IndexLoop(_, _, _, _, _, _)
IndexLoop(paths, i, success_count, errors, calls, eng) ==
  IF i > Len(paths)
  THEN [success_count |-> success_count, errors |-> errors, calls |-> calls]
  ELSE LET file_path == paths[i]
           p == PyStr(file_path)
       IN IF ~PathExists(p)
          THEN IndexLoop(paths, i + 1, success_count,
                         Append(errors, JStr(<<"File not found: ">> \o p)), calls, eng)
          ELSE IF ~PathReadable(p)
          THEN IndexLoop(paths, i + 1, success_count,
                         Append(errors, JStr(<<"Error indexing ">> \o p \o <<": ">>
                                             \o <<"'utf-8' codec can't decode byte">>)),
                         calls, eng)
          ELSE IF eng.ins[i] = "raise"
          THEN IndexLoop(paths, i + 1, success_count,
                         Append(errors, JStr(<<"Error indexing ">> \o p \o <<": ">> \o eng.text)),
                         Append(calls, Call("ainsert", <<"content of ">> \o p)), eng)
          ELSE IndexLoop(paths, i + 1, success_count + 1, errors,
                         Append(calls, Call("ainsert", <<"content of ">> \o p)), eng)

\* index_files reporting as total the number of files it handed to the engine
index_filesTotalOfInserts(a, cfg, mods, eng, args) ==
  LET init == initialize(a, cfg, mods, eng)
  IN IF init.raised THEN init
     ELSE LET file_paths == args.file_paths.l
              r == IndexLoop(file_paths, 1, 0, <<>>, <<>>, eng)
          IN After(init.calls \o r.calls,
                   Return(JObj([success_count |-> JInt(r.success_count),
                                error_count |-> JInt(Len(r.errors)),
                                errors |-> JList(r.errors),
                                total |-> JInt(Len(r.calls))]), init.a))

\* index_files without the try around one file: a missing or unreadable
\* file, or a failed insertion, ends the batch with an exception
index_filesAborts(a, cfg, mods, eng, args) ==
  LET init == initialize(a, cfg, mods, eng)
  IN IF init.raised THEN init
     ELSE LET file_paths == args.file_paths.l
              r == IndexLoop(file_paths, 1, 0, <<>>, <<>>, eng)
          IN IF r.errors # <<>>
             THEN After(init.calls \o r.calls, Raise("OSError", r.errors[1].s, init.a))
             ELSE After(init.calls \o r.calls,
                        Return(JObj([success_count |-> JInt(r.success_count),
                                     error_count |-> JInt(Len(r.errors)),
                                     errors |-> JList(r.errors),
                                     total |-> JInt(Len(file_paths))]), init.a))

\* index_files working through file_paths from its last element to its first
index_filesLastFirst(a, cfg, mods, eng, args) ==
  LET init == initialize(a, cfg, mods, eng)
  IN IF init.raised THEN init
     ELSE LET given == args.file_paths.l
              file_paths == [i \in DOMAIN given |-> given[Len(given) + 1 - i]]
              r == IndexLoop(file_paths, 1, 0, <<>>, <<>>,
                             [eng EXCEPT !.ins = [i \in DOMAIN eng.ins |->
                                                    IF i \in DOMAIN given
                                                    THEN eng.ins[Len(given) + 1 - i]
                                                    ELSE eng.ins[i]]])
          IN After(init.calls \o r.calls,
                   Return(JObj([success_count |-> JInt(r.success_count),
                                error_count |-> JInt(Len(r.errors)),
                                errors |-> JList(r.errors),
                                total |-> JInt(Len(file_paths))]), init.a))

index_files(a, cfg, mods, eng, args) ==
  LET init == initialize(a, cfg, mods, eng)
  IN IF init.raised THEN init
     ELSE LET file_paths == args.file_paths.l
              r == IndexLoop(file_paths, 1, 0, <<>>, <<>>, eng)
          IN After(init.calls \o r.calls,
                   Return(JObj([success_count |-> JInt(r.success_count),
                                error_count |-> JInt(Len(r.errors)),
                                errors |-> JList(r.errors),
                                total |-> JInt(Len(file_paths))]), init.a))

\* insert_text going to the engine without ensuring readiness first
insert_textWithoutInit(a, cfg, mods, eng, args) ==
  LET calls == <<Call("ainsert", PyStr(args.text))>>
  IN IF a.rag.instance = 0 \/ eng.ins[1] = "raise"
     THEN After(calls,
                Return(JObj([success |-> JBool(FALSE),
                             message |-> JStr(<<"Error inserting text: ">> \o eng.text)]), a))
     ELSE After(calls,
                Return(JObj([success |-> JBool(TRUE),
                             message |-> JStr(<<"Successfully inserted ">>
                                              \o <<ToString(Len(args.text.s))>>
                                              \o <<" characters">>)]), a))

insert_text(a, cfg, mods, eng, args) ==
  LET init == initialize(a, cfg, mods, eng)
      calls == init.calls \o <<Call("ainsert", PyStr(args.text))>>
  IN IF init.raised THEN init
     ELSE IF eng.ins[1] = "raise"
          THEN After(calls,
                     Return(JObj([success |-> JBool(FALSE),
                                  message |-> JStr(<<"Error inserting text: ">> \o eng.text)]),
                            init.a))
          ELSE After(calls,
                     Return(JObj([success |-> JBool(TRUE),
                                  message |-> JStr(<<"Successfully inserted ">>
                                                   \o <<ToString(Len(args.text.s))>>
                                                   \o <<" characters">>)]),
                            init.a))

\* a QueryParam that always carries both keyword lists
SearchQueryParamAlwaysKeywords(args) ==
  [mode |-> args.mode,
   only_need_context |-> args.only_context,
   top_k |-> args.top_k,
   response_type |-> args.response_type,
   max_token_for_text_unit |-> args.max_token_for_text_unit,
   max_token_for_global_context |-> args.max_token_for_global_context,
   max_token_for_local_context |-> args.max_token_for_local_context,
   hl_keywords |-> args.hl_keywords,
   ll_keywords |-> args.ll_keywords]

\* the QueryParam search_code builds: the seven fields always, the
\* keyword lists only when truthy
SearchQueryParam(args) ==
  [k \in {"mode", "only_need_context", "top_k", "response_type", "max_token_for_text_unit",
          "max_token_for_global_context", "max_token_for_local_context"}
         \cup {kw \in {"hl_keywords", "ll_keywords"} : Truthy(args[kw])} |->
     IF k = "only_need_context" THEN args.only_context ELSE args[k]]

\* search_code absorbing a failed query into a result, as insert_text does
search_codeAbsorbs(a, cfg, mods, eng, args) ==
  LET init == initialize(a, cfg, mods, eng)
      calls == init.calls
               \o <<Call("aquery", [query |-> args.query, param |-> SearchQueryParam(args)])>>
  IN IF init.raised THEN init
     ELSE IF eng.op = "raise"
          THEN After(calls,
                     Return(JObj([success |-> JBool(FALSE),
                                  message |-> JStr(<<"Search error: ">> \o eng.text)]), init.a))
          ELSE After(calls,
                     Return(JObj([answer |-> JStr(eng.text),
                                  query |-> args.query,
                                  mode |-> args.mode,
                                  top_k |-> args.top_k]), init.a))

search_code(a, cfg, mods, eng, args) ==
  LET init == initialize(a, cfg, mods, eng)
      calls == init.calls
               \o <<Call("aquery", [query |-> args.query, param |-> SearchQueryParam(args)])>>
  IN IF init.raised THEN init
     ELSE IF eng.op = "raise"
          THEN After(calls, Raise("RuntimeError", eng.text, init.a))
          ELSE After(calls,
                     Return(JObj([answer |-> JStr(eng.text),
                                  query |-> args.query,
                                  mode |-> args.mode,
                                  top_k |-> args.top_k]), init.a))

get_entity(a, cfg, mods, eng, args) ==
  LET init == initialize(a, cfg, mods, eng)
      calls == init.calls
               \o <<Call("aquery",
                         [query |-> JStr(<<"Describe the entity '">> \o PyStr(args.entity_name)
                                         \o <<"' in detail. Include its purpose, methods, and usage.">>),
                          param |-> [mode |-> JStr(<<"local">>),
                                     only_need_context |-> JBool(TRUE),
                                     top_k |-> JInt(10)]])>>
  IN IF init.raised THEN init
     ELSE IF eng.op = "raise"
          THEN After(calls, Raise("RuntimeError", eng.text, init.a))
          ELSE After(calls,
                     Return(JObj([entity_name |-> args.entity_name,
                                  description |-> JStr(eng.text),
                                  search_mode |-> JStr(<<"local">>)]), init.a))

\* get_relationships echoing the relation_type it was called with, None included
get_relationshipsEchoesNone(a, cfg, mods, eng, args) ==
  LET init == initialize(a, cfg, mods, eng)
      calls == init.calls
               \o <<Call("aquery", [query |-> JStr(<<"What relationships does '">>
                                                   \o PyStr(args.entity_name) \o <<"' have?">>),
                                    param |-> [mode |-> JStr(<<"local">>), top_k |-> JInt(20)]])>>
  IN IF init.raised THEN init
     ELSE IF eng.op = "raise"
          THEN After(calls, Raise("RuntimeError", eng.text, init.a))
          ELSE After(calls,
                     Return(JObj([entity_name |-> args.entity_name,
                                  relation_type |-> args.relation_type,
                                  depth |-> args.depth,
                                  relationships |-> JStr(eng.text)]), init.a))

get_relationships(a, cfg, mods, eng, args) ==
  LET init == initialize(a, cfg, mods, eng)
      query == IF Truthy(args.relation_type)
               THEN <<"What ">> \o PyStr(args.relation_type) \o <<" relationships does '">>
                    \o PyStr(args.entity_name) \o <<"' have? Show dependencies up to depth ">>
                    \o PyStr(args.depth) \o <<".">>
               ELSE <<"What are all the relationships for '">> \o PyStr(args.entity_name)
                    \o <<"'? Include calls, inheritance, and dependencies up to depth ">>
                    \o PyStr(args.depth) \o <<".">>
      calls == init.calls
               \o <<Call("aquery", [query |-> JStr(query),
                                    param |-> [mode |-> JStr(<<"local">>), top_k |-> JInt(20)]])>>
  IN IF init.raised THEN init
     ELSE IF eng.op = "raise"
          THEN After(calls, Raise("RuntimeError", eng.text, init.a))
          ELSE After(calls,
                     Return(JObj([entity_name |-> args.entity_name,
                                  relation_type |-> IF Truthy(args.relation_type)
                                                    THEN args.relation_type ELSE JStr(<<"all">>),
                                  depth |-> args.depth,
                                  relationships |-> JStr(eng.text)]), init.a))

\* s[:n]: the first n characters of s, all of s when it is shorter
Prefix(s, n) == SubSeq(s, 1, IF Len(s) < n THEN Len(s) ELSE n)

\* the diagram is Mermaid text whatever args.format is; the result node
\* carries str(result)[:100]
visualize_subgraph(a, cfg, mods, eng, args) ==
  LET init == initialize(a, cfg, mods, eng)
      calls == init.calls
               \o <<Call("aquery",
                         [query |-> JStr(PyStr(args.query)
                                         \o <<". List all entities and their relationships.">>),
                          param |-> [mode |-> JStr(<<"hybrid">>), top_k |-> args.max_nodes]])>>
  IN IF init.raised THEN init
     ELSE IF eng.op = "raise"
          THEN After(calls, Raise("RuntimeError", eng.text, init.a))
          ELSE LET diagram == <<"graph TD", LF>>
                              \o <<"    Query[", QUOTE>> \o PyStr(args.query) \o <<QUOTE, "]", LF>>
                              \o <<"    Result[", QUOTE>> \o Prefix(eng.text, 100)
                              \o <<"...", QUOTE, "]", LF>>
                              \o <<"    Query --> Result", LF>>
               IN After(calls,
                        Return(JObj([query |-> args.query,
                                     format |-> args.format,
                                     diagram |-> JStr(diagram),
                                     max_nodes |-> args.max_nodes]), init.a))

\* get_indexing_status reporting the flag without ensuring readiness
get_indexing_statusWithoutInit(a, cfg, mods, eng) ==
  Return(JObj([initialized |-> JBool(a.initialized),
               working_dir |-> JStr(PathStr(cfg.working_dir.s)),
               working_dir_size_bytes |-> JInt(eng.size),
               storage_backends |->
                 JObj([milvus |-> IF Truthy(cfg.milvus_address)
                                  THEN cfg.milvus_address
                                  ELSE JStr(<<"NanoVectorDB">>),
                       neo4j |-> IF Truthy(cfg.neo4j_uri)
                                 THEN cfg.neo4j_uri
                                 ELSE JStr(<<"NetworkX">>)])]), a)

\* eng.size is the total size of the regular files under working_dir
get_indexing_status(a, cfg, mods, eng) ==
  LET init == initialize(a, cfg, mods, eng)
  IN IF init.raised THEN init
     ELSE After(init.calls,
                Return(JObj([initialized |-> JBool(init.a.initialized),
                             working_dir |-> JStr(PathStr(cfg.working_dir.s)),
                             working_dir_size_bytes |-> JInt(eng.size),
                             storage_backends |->
                               JObj([milvus |-> IF Truthy(cfg.milvus_address)
                                                THEN cfg.milvus_address
                                                ELSE JStr(<<"NanoVectorDB">>),
                                     neo4j |-> IF Truthy(cfg.neo4j_uri)
                                               THEN cfg.neo4j_uri
                                               ELSE JStr(<<"NetworkX">>)])]), init.a))

(* ----------------------------- method table ---------------------------- *)
\* the parameters each handler declares: those without a default ...
Required(m) ==
  CASE m = "index_files" -> {"file_paths"}
    [] m = "insert_text" -> {"text"}
    [] m = "search_code" -> {"query"}
    [] m = "get_entity" -> {"entity_name"}
    [] m = "get_relationships" -> {"entity_name"}
    [] m = "visualize_subgraph" -> {"query"}

\* ... and those with one
Defaults(m) ==
  CASE m = "index_files" -> <<>>
    [] m = "insert_text" -> [metadata |-> JNull]
    [] m = "search_code" -> [mode |-> JStr(<<"hybrid">>),
                             top_k |-> JInt(10),
                             only_context |-> JBool(FALSE),
                             response_type |-> JStr(<<"Multiple Paragraphs">>),
                             max_token_for_text_unit |-> JInt(4000),
                             max_token_for_global_context |-> JInt(4000),
                             max_token_for_local_context |-> JInt(4000),
                             hl_keywords |-> JNull,
                             ll_keywords |-> JNull]
    [] m = "get_entity" -> <<>>
    [] m = "get_relationships" -> [relation_type |-> JNull, depth |-> JInt(1)]
    [] m = "visualize_subgraph" -> [format |-> JStr(<<"mermaid">>), max_nodes |-> JInt(20)]

\* the call handler(**params): binds params to the declared parameters by name
\* a binding whose key check comes after the engine was made ready: a
\* mismatch is still a TypeError, raised by an adapter that has constructed
BindAfterReadiness(m, params, a) ==
  LET ready == IF a.initialized THEN a
               ELSE [rag |-> [instance |-> a.constructed + 1,
                              graph_storage |-> "default", vector_storage |-> "default"],
                     initialized |-> TRUE,
                     constructed |-> a.constructed + 1]
      calls == IF a.initialized THEN <<>> ELSE <<Call("LightRAG", <<>>)>>
  IN IF params.t # "obj"
     THEN Raise("TypeError", <<"argument after ** must be a mapping">>, a)
     ELSE IF DOMAIN params.o \ (Required(m) \cup DOMAIN Defaults(m)) # {}
     THEN After(calls, Raise("TypeError", <<m, "() got an unexpected keyword argument">>, ready))
     ELSE IF Required(m) \ DOMAIN params.o # {}
     THEN After(calls, Raise("TypeError", <<m, "() missing 1 required positional argument">>, ready))
     ELSE Return([k \in Required(m) \cup DOMAIN Defaults(m) |->
                    IF k \in DOMAIN params.o THEN params.o[k] ELSE Defaults(m)[k]], a)

Bind(m, params, a) ==
  IF params.t # "obj"
  THEN Raise("TypeError", <<"argument after ** must be a mapping">>, a)
  ELSE IF DOMAIN params.o \ (Required(m) \cup DOMAIN Defaults(m)) # {}
  THEN Raise("TypeError", <<m, "() got an unexpected keyword argument">>, a)
  ELSE IF Required(m) \ DOMAIN params.o # {}
  THEN Raise("TypeError", <<m, "() missing 1 required positional argument">>, a)
  ELSE Return([k \in Required(m) \cup DOMAIN Defaults(m) |->
                 IF k \in DOMAIN params.o THEN params.o[k] ELSE Defaults(m)[k]], a)

\* the else branch of the chain: no handler matches
UnknownMethodUnnamed(method, a) == Raise("ValueError", <<"Unknown method">>, a)

UnknownMethod(method, a) == Raise("ValueError", <<"Unknown method: ">> \o PyStr(method), a)

\* the if/elif chain of handle_request; a handler body runs only when its
\* parameters could be bound
Dispatch(method, params, a, cfg, mods, eng) ==
  CASE method = JStr(<<"ping">>) -> Invoked("ping", ping(a))
    [] method = JStr(<<"index_files">>) ->
         LET b == Bind("index_files", params, a)
         IN IF b.raised THEN b
            ELSE Invoked("index_files", index_files(a, cfg, mods, eng, b.value))
    [] method = JStr(<<"search_code">>) ->
         LET b == Bind("search_code", params, a)
         IN IF b.raised THEN b
            ELSE Invoked("search_code", search_code(a, cfg, mods, eng, b.value))
    [] method = JStr(<<"get_entity">>) ->
         LET b == Bind("get_entity", params, a)
         IN IF b.raised THEN b
            ELSE Invoked("get_entity", get_entity(a, cfg, mods, eng, b.value))
    [] method = JStr(<<"get_relationships">>) ->
         LET b == Bind("get_relationships", params, a)
         IN IF b.raised THEN b
            ELSE Invoked("get_relationships", get_relationships(a, cfg, mods, eng, b.value))
    [] method = JStr(<<"visualize_subgraph">>) ->
         LET b == Bind("visualize_subgraph", params, a)
         IN IF b.raised THEN b
            ELSE Invoked("visualize_subgraph", visualize_subgraph(a, cfg, mods, eng, b.value))
    [] method = JStr(<<"get_indexing_status">>) ->
         Invoked("get_indexing_status", get_indexing_status(a, cfg, mods, eng))
    [] method = JStr(<<"insert_text">>) ->
         LET b == Bind("insert_text", params, a)
         IN IF b.raised THEN b
            ELSE Invoked("insert_text", insert_text(a, cfg, mods, eng, b.value))
    [] OTHER -> UnknownMethod(method, a)

(* ---------------------------- handle_request --------------------------- *)
\* the except clause of handle_request: the exception classes it converts
\* into an error response
CaughtValueErrorOnly(exc) == exc = "ValueError"

Caught(exc) == TRUE

ErrorEnvelopeWithResult(jsonrpc, request_id, d) ==
  JObj([jsonrpc |-> jsonrpc,
        id |-> request_id,
        result |-> JNull,
        error |-> JObj([code |-> JInt(INTERNAL_ERROR),
                        message |-> JStr(d.msg),
                        data |-> JObj([type |-> JStr(<<d.exc>>)])])])

ErrorEnvelopeNullId(jsonrpc, request_id, d) ==
  JObj([jsonrpc |-> jsonrpc,
        id |-> JNull,
        error |-> JObj([code |-> JInt(INTERNAL_ERROR),
                        message |-> JStr(d.msg),
                        data |-> JObj([type |-> JStr(<<d.exc>>)])])])

\* an error envelope with a fixed message and the text in data
ErrorEnvelopeGenericMessage(jsonrpc, request_id, d) ==
  JObj([jsonrpc |-> jsonrpc,
        id |-> request_id,
        error |-> JObj([code |-> JInt(INTERNAL_ERROR),
                        message |-> JStr(<<"Internal error">>),
                        data |-> JStr(d.msg)])])

ErrorEnvelope(jsonrpc, request_id, d) ==
  JObj([jsonrpc |-> jsonrpc,
        id |-> request_id,
        error |-> JObj([code |-> JInt(INTERNAL_ERROR),
                        message |-> JStr(d.msg),
                        data |-> JObj([type |-> JStr(<<d.exc>>)])])])

ResultEnvelopeNullId(jsonrpc, request_id, d) ==
  JObj([jsonrpc |-> jsonrpc, id |-> JNull, result |-> d.value])

ResultEnvelope(jsonrpc, request_id, d) ==
  JObj([jsonrpc |-> jsonrpc, id |-> request_id, result |-> d.value])

\* the default of request.get("params", {})
DefaultParamsNone == JNull

DefaultParams == JObj(<<>>)

\* escaped: an exception left handle_request; otherwise response is returned
handle_request(request, a, cfg, mods, eng) ==
  IF request.t # "obj"
  THEN [escaped |-> TRUE, exc |-> "AttributeError", raised |-> FALSE, response |-> JNull,
        a |-> a, handler |-> "", calls |-> <<>>]
  ELSE LET jsonrpc == Get(request, "jsonrpc", JStr(<<"2.0">>))
           request_id == Get(request, "id", JNull)
           method == Get(request, "method", JNull)
           params == Get(request, "params", DefaultParams)
           d == Dispatch(method, params, a, cfg, mods, eng)
       IN IF ~d.raised
          THEN [escaped |-> FALSE, exc |-> "", raised |-> FALSE,
                response |-> ResultEnvelope(jsonrpc, request_id, d),
                a |-> d.a, handler |-> d.handler, calls |-> d.calls]
          ELSE IF Caught(d.exc)
          THEN [escaped |-> FALSE, exc |-> d.exc, raised |-> TRUE,
                response |-> ErrorEnvelope(jsonrpc, request_id, d),
                a |-> d.a, handler |-> d.handler, calls |-> d.calls]
          ELSE [escaped |-> TRUE, exc |-> d.exc, raised |-> TRUE, response |-> JNull,
                a |-> d.a, handler |-> d.handler, calls |-> d.calls]

(* ------------------------------ input lines --------------------------- *)
\* a line as sys.stdin.readline returns it: ws whitespace characters (the
\* trailing newline included) around a body; the empty str is end-of-stream
EmptyBody == [k |-> "empty"]
TextBody(s) == [k |-> "text", s |-> s]
JsonBody(v) == [k |-> "json", v |-> v]
RawLine(ws, body) == [ws |-> ws, body |-> body]
EOFLine == RawLine(0, EmptyBody)

\* `not line`
IsEmptyStr(ln) == ln.ws = 0 /\ ln.body = EmptyBody
\* a line used as read, without line.strip()
StripNothing(ln) == ln

\* line.strip()
Strip(ln) == [ln EXCEPT !.ws = 0]

\* json.loads(line): the decoded value, or JSONDecodeError
Loads(ln) ==
  IF ln.body.k = "json"
  THEN [raised |-> FALSE, value |-> ln.body.v]
  ELSE [raised |-> TRUE, value |-> JNull]

\* an optional member of a JSON object
Absent == [has |-> FALSE]
Present(v) == [has |-> TRUE, v |-> v]
MkObj(members) ==
  JObj([k \in {x \in DOMAIN members : members[x].has} |-> members[k].v])

STR_MULTILINE == <<"a", LF, "b", QUOTE>>

JsonrpcOpts == {Absent, Present(JStr(<<"2.0">>)), Present(JStr(<<"1.0">>))}
IdOpts == {Absent, Present(JNull), Present(JInt(7)), Present(JStr(STR_MULTILINE))}

MethodNames == {"ping", "index_files", "search_code", "get_entity", "get_relationships",
                "visualize_subgraph", "get_indexing_status", "insert_text"}

\* sample params for each registered method: a well-formed call, one with an
\* optional parameter, one with an unexpected key
SampleParams(m) ==
  CASE m = "ping" -> {JObj(<<>>), JObj([bogus |-> JInt(1)])}
    [] m = "index_files" ->
         {JObj([file_paths |-> JList(<<JStr(FILE_A), JStr(FILE_MISSING)>>)]),
          JObj([file_paths |-> JList(<<JStr(FILE_BAD)>>)]),
          JObj(<<>>)}
    [] m = "search_code" ->
         {JObj([query |-> JStr(<<"q">>)]),
          JObj([query |-> JStr(<<"q">>), mode |-> JStr(<<"local">>), top_k |-> JInt(3)]),
          JObj([query |-> JStr(<<"q">>), bogus |-> JInt(1)])}
    [] m = "get_entity" -> {JObj([entity_name |-> JStr(<<"E">>)]), JObj(<<>>)}
    [] m = "get_relationships" ->
         {JObj([entity_name |-> JStr(<<"E">>)]),
          JObj([entity_name |-> JStr(<<"E">>), relation_type |-> JStr(<<"calls">>), depth |-> JInt(2)]),
          JList(<<>>)}
    [] m = "visualize_subgraph" ->
         {JObj([query |-> JStr(<<"q">>)]),
          JObj([query |-> JStr(<<"q">>), format |-> JStr(<<"dot">>), max_nodes |-> JInt(5)])}
    [] m = "get_indexing_status" -> {JObj(<<>>), JObj([bogus |-> JInt(1)])}
    [] m = "insert_text" ->
         {JObj([text |-> JStr(<<"t">>)]),
          JObj([text |-> JStr(<<"t">>), metadata |-> JObj(<<>>)]),
          JNull}

MethodParams ==
  {[method |-> Present(JStr(<<m>>)), params |-> Absent] : m \in MethodNames}
  \cup UNION {{[method |-> Present(JStr(<<m>>)), params |-> Present(p)] : p \in SampleParams(m)}
              : m \in MethodNames}
  \cup {[method |-> Present(JStr(<<"delete_everything">>)), params |-> Present(JObj(<<>>))],
        [method |-> Absent, params |-> Absent]}

\* the requests whose envelope fields vary: every combination of jsonrpc and
\* id with a succeeding, an unknown and an engine-backed method
EnvelopeProbes ==
  {[method |-> Present(JStr(<<"ping">>)), params |-> Absent],
   [method |-> Present(JStr(<<"delete_everything">>)), params |-> Present(JObj(<<>>))],
   [method |-> Present(JStr(<<"search_code">>)), params |-> Present(JObj([query |-> JStr(<<"q">>)]))]}

Requests ==
  {MkObj([jsonrpc |-> j, id |-> i, method |-> mp.method, params |-> mp.params]) :
     j \in JsonrpcOpts, i \in IdOpts, mp \in EnvelopeProbes}
  \cup {MkObj([jsonrpc |-> Present(JStr(<<"2.0">>)), id |-> Present(JInt(7)),
               method |-> mp.method, params |-> mp.params]) : mp \in MethodParams}

\* JSON texts that decode to something other than an object
NonObjects == {JInt(5), JStr(<<"ping">>), JList(<<>>), JNull}

Lines ==
  {RawLine(1, EmptyBody), RawLine(3, EmptyBody)}
  \cup {RawLine(1, TextBody(<<"hello">>)), RawLine(1, TextBody(<<"{", QUOTE, "id", QUOTE, ": 1">>))}
  \cup {RawLine(1, JsonBody(v)) : v \in NonObjects \cup Requests}

\* what a line is, for the properties below
LineKind(ln) ==
  CASE Strip(ln).body = EmptyBody -> "blank"
    [] ln.body.k = "text" -> "garbage"
    [] ln.body.v.t # "obj" -> "nonobj"
    [] OTHER -> "obj"

(* ------------------------------ environment ---------------------------- *)
\* the outcomes of the calls into the external engine during one request
Outcomes == {"ok", "raise"}
MaxPaths == 2
Engines ==
  [ctor : Outcomes, op : Outcomes, ins : [1..MaxPaths -> Outcomes],
   text : {<<"line 1", LF, "line 2">>}, size : {0, 4096}]

\* the parts of the engine's behaviour the handler of a request can observe
Observes(req) ==
  LET m == IF req.t = "obj" THEN Get(req, "method", JNull) ELSE JNull
  IN CASE m \in {JStr(<<"index_files">>), JStr(<<"insert_text">>)} -> {"ctor", "ins"}
       [] m \in {JStr(<<"search_code">>), JStr(<<"get_entity">>),
                 JStr(<<"get_relationships">>), JStr(<<"visualize_subgraph">>)} -> {"ctor", "op"}
       [] m = JStr(<<"get_indexing_status">>) -> {"ctor", "size"}
       [] OTHER -> {}

\* an engine whose every call succeeds, over an empty working directory
QuietEngine ==
  [ctor |-> "ok", op |-> "ok", ins |-> [i \in 1..MaxPaths |-> "ok"],
   text |-> <<"line 1", LF, "line 2">>, size |-> 0]

\* one engine for each behaviour the request can tell apart: engines that
\* differ only in a part the request never exercises lead to the same step
EnginesFor(req) ==
  {e \in Engines : \A f \in {"ctor", "op", "ins", "size"} \ Observes(req) : e[f] = QuietEngine[f]}

\* the fields __init__ captures that do not vary here
FixedConfig ==
  [working_dir |-> JStr(<<".", "/", "dev-data">>),
   openai_api_key |-> JStr(<<"test-key">>),
   openai_base_url |-> JStr(<<"https://api.openai.com/v1">>),
   openai_model |-> JStr(<<"gpt-4">>),
   openai_embedding_model |-> JStr(<<"text-embedding-ada-002">>),
   neo4j_username |-> JStr(<<"neo4j">>)]

\* FixedConfig together with the three optional storage settings
Config(milvus_address, neo4j_uri, neo4j_password) ==
  [k \in DOMAIN FixedConfig \cup {"milvus_address", "neo4j_uri", "neo4j_password"} |->
     CASE k = "milvus_address" -> milvus_address
       [] k = "neo4j_uri" -> neo4j_uri
       [] k = "neo4j_password" -> neo4j_password
       [] OTHER -> FixedConfig[k]]

MILVUS == JStr(<<"localhost:19530">>)
NEO4J == JStr(<<"neo4j://localhost:7687">>)

\* nothing optional configured, or both stores configured
Configs == {Config(JNull, JNull, JNull), Config(MILVUS, NEO4J, JStr(<<"pass">>))}

Modules == {[neo4j |-> TRUE, milvus |-> TRUE], [neo4j |-> FALSE, milvus |-> FALSE]}

(* -------------------------------- state -------------------------------- *)
VARIABLES
  pc,           \* position of run: read, loads, handle, write, flush,
                \* perr_write, perr_flush, done (EOF, loop left), crashed
  line,         \* run's local `line`
  request,      \* run's local `request`
  response,     \* run's local `response` / `error_response`
  chunk,        \* the str handed to the last sys.stdout.write
  rag,          \* self.rag
  initialized,  \* self._initialized
  config,       \* the fields captured by __init__
  modules,      \* which optional backend modules can be imported
  hist,         \* per input line read: its kind and the envelope produced
  out,          \* sys.stdout: the chunks written, each flushed or not
  ev,           \* what the last step did
  trace,        \* the handler run and the engine calls made for the current line
  constructed,  \* number of LightRAG instances constructed so far
  tasks,        \* handler coroutines sharing the adapter: position of each
  running,      \* the coroutine the event loop is running, 0 when none
  call          \* the last direct call of handle_request: the engine it met,
                \* the adapter before it and what the dispatch raised

vars == <<pc, line, request, response, chunk, rag, initialized, config, modules, hist, out, ev,
          trace, constructed, tasks, running, call>>

\* the variables only the other specifications use: the coroutines of the
\* concurrent one and the last call of the direct one
concVars == <<tasks, running, call>>

NoRag == [instance |-> 0, graph_storage |-> "none", vector_storage |-> "none"]
NoTrace == [handler |-> "", calls |-> <<>>]
NoCall ==
  [eng |-> QuietEngine,
   before |-> [rag |-> NoRag, initialized |-> FALSE, constructed |-> 0],
   raised |-> FALSE, exc |-> "", msg |-> <<>>, after_failure |-> FALSE]

Init ==
  /\ pc = "read"
  /\ line = EOFLine
  /\ request = JNull
  /\ response = JNull
  /\ chunk = <<>>
  /\ rag = NoRag
  /\ initialized = FALSE
  /\ config \in Configs
  /\ modules \in Modules
  /\ hist = <<>>
  /\ out = <<>>
  /\ ev = "start"
  /\ trace = NoTrace
  /\ constructed = 0
  /\ tasks = <<>>
  /\ running = 0
  /\ call = NoCall

\* the index of the line being processed
cur == Len(hist)

\* the error code of an envelope, 0 for a result
CodeOf(env) == IF "error" \in DOMAIN env.o THEN env.o.error.o.code.n ELSE 0

\* leaving the while loop instead of starting its next iteration
NextIterationBreaks ==
  /\ pc' = "done"
  /\ line' = EOFLine
  /\ request' = JNull
  /\ response' = JNull
  /\ chunk' = <<>>
  /\ trace' = NoTrace

\* back to the top of the while loop
NextIteration ==
  /\ pc' = "read"
  /\ line' = EOFLine
  /\ request' = JNull
  /\ response' = JNull
  /\ chunk' = <<>>
  /\ trace' = NoTrace

(* --------------------------------- run --------------------------------- *)
\* line 390: readline raises; run's `except Exception` logs it
ReadRaises ==
  /\ pc = "read"
  /\ NextIteration
  /\ ev' = "read_raised"
  /\ UNCHANGED <<rag, initialized, constructed, config, modules, hist, out>>
  /\ UNCHANGED concVars

\* lines 390-394: readline returns the empty str, the loop is left
ReadEOF ==
  /\ pc = "read"
  /\ pc' = "done"
  /\ ev' = "eof"
  /\ UNCHANGED <<line, request, response, chunk, trace, rag, initialized, constructed,
                 config, modules, hist, out>>
  /\ UNCHANGED concVars

\* lines 390-398: readline returns a line; a blank one is skipped
ReadLine ==
  /\ pc = "read"
  /\ Len(hist) < MaxLines
  /\ \E ln \in Lines :
       /\ ~IsEmptyStr(ln)
       /\ hist' = Append(hist, [kind |-> LineKind(ln), resp |-> "none"])
       /\ IF IsEmptyStr(Strip(ln))
          THEN /\ NextIteration
               /\ ev' = "blank"
          ELSE /\ pc' = "loads"
               /\ line' = Strip(ln)
               /\ ev' = "line"
               /\ UNCHANGED <<request, response, chunk, trace>>
  /\ UNCHANGED <<rag, initialized, constructed, config, modules, out>>
  /\ UNCHANGED concVars

ParseErrorEnvelopeInternalCode ==
  JObj([jsonrpc |-> JStr(<<"2.0">>),
        id |-> JNull,
        error |-> JObj([code |-> JInt(INTERNAL_ERROR),
                        message |-> JStr(<<"Parse error">>),
                        data |-> JStr(<<"Expecting value">>)])])

ParseErrorEnvelope ==
  JObj([jsonrpc |-> JStr(<<"2.0">>),
        id |-> JNull,
        error |-> JObj([code |-> JInt(PARSE_ERROR),
                        message |-> JStr(<<"Parse error">>),
                        data |-> JStr(<<"Expecting value">>)])])

\* line 401, and lines 410-420 when json.loads raises JSONDecodeError
LoadsLine ==
  /\ pc = "loads"
  /\ LET r == Loads(line)
     IN IF r.raised
        THEN /\ pc' = "perr_write"
             /\ response' = ParseErrorEnvelope
             /\ hist' = [hist EXCEPT ![cur].resp = "parse_error"]
             /\ ev' = "decode_error"
             /\ UNCHANGED request
        ELSE /\ pc' = "handle"
             /\ request' = r.value
             /\ ev' = "decoded"
             /\ UNCHANGED <<response, hist>>
  /\ UNCHANGED <<line, chunk, trace, rag, initialized, constructed, config, modules, out>>
  /\ UNCHANGED concVars

\* line 404: await self.handle_request(request); an exception that leaves
\* handle_request is logged by run's `except Exception`
HandleRequest ==
  /\ pc = "handle"
  /\ \E eng \in EnginesFor(request) :
       \E h \in {handle_request(request,
                               [rag |-> rag, initialized |-> initialized,
                                constructed |-> constructed],
                               config, modules, eng)} :
          /\ rag' = h.a.rag
          /\ initialized' = h.a.initialized
          /\ constructed' = h.a.constructed
          /\ IF h.escaped
             THEN /\ NextIteration
                  /\ ev' = "handle_escaped"
                  /\ UNCHANGED hist
             ELSE /\ pc' = "write"
                  /\ response' = h.response
                  /\ hist' = [hist EXCEPT ![cur].resp = IF h.raised THEN "error" ELSE "result"]
                  /\ ev' = IF h.raised THEN "handler_raised" ELSE "handler_returned"
                  /\ trace' = [handler |-> h.handler, calls |-> h.calls]
                  /\ UNCHANGED <<line, request, chunk>>
  /\ UNCHANGED <<config, modules, out>>
  /\ UNCHANGED concVars

\* line 407 / line 421: sys.stdout.write(json.dumps(envelope) + "\n")
Serialize(env) == Dumps(env) \o <<LF>>

\* a stdout whose newest text goes in front of what is already buffered
StdoutWriteInFront(s, env) == <<[k |-> cur, code |-> CodeOf(env), flushed |-> FALSE]>> \o out

\* sys.stdout.write(s): the text is buffered
StdoutWrite(s, env) == Append(out, [k |-> cur, code |-> CodeOf(env), flushed |-> FALSE])

\* sys.stdout.flush(): everything buffered reaches the reader
StdoutFlush == [i \in DOMAIN out |-> [out[i] EXCEPT !.flushed = TRUE]]

\* line 407
WriteResponse ==
  /\ pc = "write"
  /\ \/ /\ chunk' = Serialize(response)
        /\ out' = StdoutWrite(chunk', response)
        /\ pc' = "flush"
        /\ ev' = "written"
        /\ UNCHANGED <<line, request, response, trace>>
     \/ /\ NextIteration
        /\ ev' = "write_raised"
        /\ UNCHANGED out
  /\ UNCHANGED <<rag, initialized, constructed, config, modules, hist>>
  /\ UNCHANGED concVars

\* line 408
FlushResponse ==
  /\ pc = "flush"
  /\ NextIteration
  /\ \/ /\ out' = StdoutFlush
        /\ ev' = "flushed"
     \/ /\ ev' = "flush_raised"
        /\ UNCHANGED out
  /\ UNCHANGED <<rag, initialized, constructed, config, modules, hist>>
  /\ UNCHANGED concVars

\* line 421; an exception raised inside the except clause leaves run
WriteParseError ==
  /\ pc = "perr_write"
  /\ \/ /\ chunk' = Serialize(response)
        /\ out' = StdoutWrite(chunk', response)
        /\ pc' = "perr_flush"
        /\ ev' = "perr_written"
     \/ /\ pc' = "crashed"
        /\ ev' = "perr_write_raised"
        /\ UNCHANGED <<chunk, out>>
  /\ UNCHANGED <<line, request, response, trace, rag, initialized, constructed,
                 config, modules, hist>>
  /\ UNCHANGED concVars

\* line 422
FlushParseError ==
  /\ pc = "perr_flush"
  /\ \/ /\ NextIteration
        /\ out' = StdoutFlush
        /\ ev' = "perr_flushed"
     \/ /\ pc' = "crashed"
        /\ ev' = "perr_flush_raised"
        /\ UNCHANGED <<line, request, response, chunk, trace, out>>
  /\ UNCHANGED <<rag, initialized, constructed, config, modules, hist>>
  /\ UNCHANGED concVars

Next ==
  \/ ReadRaises
  \/ ReadEOF
  \/ ReadLine
  \/ LoadsLine
  \/ HandleRequest
  \/ WriteResponse
  \/ FlushResponse
  \/ WriteParseError
  \/ FlushParseError

Spec == Init /\ [][Next]_vars

TypeOK ==
  /\ pc \in {"read", "loads", "handle", "write", "flush", "perr_write", "perr_flush", "done", "crashed"}
  /\ initialized \in BOOLEAN
  /\ Len(hist) <= MaxLines

(* ------------------------------ properties ----------------------------- *)
\* line k has been dealt with: the loop is past it
Settled(k) == k < cur \/ (k = cur /\ pc \in {"read", "done"})

\* the chunks on stdout that answer line k
Answers(k) == {i \in DOMAIN out : out[i].k = k}

InFlight == pc \in {"write", "flush", "perr_write", "perr_flush"}
HasResult(env) == "result" \in DOMAIN env.o
HasError(env) == "error" \in DOMAIN env.o

TransportRaised ==
  ev \in {"read_raised", "write_raised", "flush_raised", "perr_write_raised", "perr_flush_raised"}

\* C1: unless a transport failure has ended the process, every non-blank
\* line the loop has dealt with has exactly one response line on stdout,
\* whatever the line contains.
C1_OneResponsePerNonBlankLine ==
  pc # "crashed" =>
    \A k \in DOMAIN hist :
      (Settled(k) /\ hist[k].kind # "blank") => Cardinality(Answers(k)) = 1

\* C2: every envelope produced by handle_request or by the parse-error path
\* of run has exactly one of the fields result and error.
C2_ExactlyOneOfResultAndError ==
  InFlight => (response.t = "obj" /\ (HasResult(response) # HasError(response)))

C2_Witness ==
  /\ pc = "perr_write"
  /\ HasError(response)
  /\ \E i \in DOMAIN out : out[i].code = 0

\* C3: for a line that decodes to a request object, the id of the response
\* is the id of the request (null when the request has none), for a result
\* and for an error alike.
C3_IdEchoed ==
  pc = "write" => (request.t = "obj" /\ response.o.id = Get(request, "id", JNull))

C3_Witness ==
  /\ pc = "write"
  /\ ev = "handler_raised"
  /\ HasError(response)
  /\ "id" \in DOMAIN request.o
  /\ response.o.id = JStr(STR_MULTILINE)

\* C4 as stated: once a line has been parsed, the id of an error response
\* is never null.
C4_ErrorIdNeverNull ==
  (pc = "write" /\ HasError(response)) => response.o.id # JNull

\* C4 as amended: the id of an error response to a parsed request is the
\* request's id, so it is null only when the request's id is absent or null;
\* an error response with id null and the parse-error code is produced only
\* for a line that failed to parse.
C4_ErrorIdIsRequestId ==
  /\ (pc = "write" /\ HasError(response)) =>
       /\ response.o.id = Get(request, "id", JNull)
       /\ CodeOf(response) # PARSE_ERROR
       /\ response.o.id = JNull => ("id" \notin DOMAIN request.o \/ request.o.id = JNull)
  /\ (InFlight /\ response.o.id = JNull /\ CodeOf(response) = PARSE_ERROR) =>
       (pc \in {"perr_write", "perr_flush"} /\ hist[cur].kind = "garbage")

C4_Witness ==
  /\ pc = "write"
  /\ HasError(response)
  /\ "id" \notin DOMAIN request.o
  /\ response.o.id = JNull
  /\ CodeOf(response) = INTERNAL_ERROR

\* C5: a non-blank line that json.loads rejects gets exactly one response,
\* with code -32700 and id null, and the loop then goes on reading and
\* answering the following lines (a failing write or flush of that response
\* is a transport failure and ends the process).
C5_ParseErrorResponse ==
  /\ pc \in {"perr_write", "perr_flush"} =>
       (hist[cur].kind = "garbage" /\ CodeOf(response) = PARSE_ERROR /\ response.o.id = JNull)
  /\ pc # "crashed" =>
       \A k \in DOMAIN hist :
         (Settled(k) /\ hist[k].kind = "garbage") =>
            /\ Cardinality(Answers(k)) = 1
            /\ \A i \in Answers(k) : out[i].code = PARSE_ERROR /\ out[i].flushed
  /\ ev = "perr_flushed" => pc = "read"

C5_Witness ==
  /\ Len(hist) = 2
  /\ hist[1].kind = "garbage"
  /\ hist[2].kind = "obj"
  /\ \E i, j \in DOMAIN out :
       /\ i < j
       /\ out[i] = [k |-> 1, code |-> PARSE_ERROR, flushed |-> TRUE]
       /\ out[j] = [k |-> 2, code |-> 0, flushed |-> TRUE]

\* C6: a response carries code -32700 exactly for the lines that could not
\* be decoded into a request envelope, and every failure after a successful
\* parse yields a response with code -32603.
C6_CodesPartitionFailures ==
  /\ pc # "crashed" =>
       \A k \in DOMAIN hist :
         Settled(k) =>
           ((\E i \in Answers(k) : out[i].code = PARSE_ERROR)
              <=> hist[k].kind \in {"garbage", "nonobj"})
  /\ ev = "handler_raised" => (pc = "write" /\ CodeOf(response) = INTERNAL_ERROR)
  /\ ev # "handle_escaped"

\* C7: a failure raised while dispatching or executing a handler is turned
\* into an error response; the loop neither ends nor crashes because of it,
\* and the next request is dispatched and answered as usual.
C7_HandlerFailuresContained ==
  /\ ev = "handler_raised" =>
       (pc = "write" /\ HasError(response) /\ CodeOf(response) = INTERNAL_ERROR)
  /\ \A k \in DOMAIN hist :
       (hist[k].kind = "obj" /\ (Settled(k) \/ (k = cur /\ pc \in {"write", "flush"}))) =>
          hist[k].resp \in {"result", "error"}
  /\ pc = "crashed" => hist[cur].kind = "garbage"
  /\ pc = "done" => ev = "eof"

C7_Witness ==
  /\ Len(hist) = 2
  /\ hist[1] = [kind |-> "obj", resp |-> "error"]
  /\ hist[2] = [kind |-> "obj", resp |-> "result"]
  /\ Cardinality(Answers(1)) = 1
  /\ Cardinality(Answers(2)) = 1
  /\ pc = "read"

\* C8: a failure of stdin.readline, stdout.write or stdout.flush ends the
\* transport loop, wherever in run it is raised.
C8_TransportFailureTerminates ==
  TransportRaised => pc = "crashed"

\* C9: whenever the loop is about to read a line, every response produced
\* for an earlier line has been written and flushed.
C9_ResponseFlushedBeforeNextRead ==
  pc = "read" =>
    \A k \in DOMAIN hist :
      hist[k].resp # "none" => \E i \in Answers(k) : out[i].flushed

\* C10: what is written for a response is one line, ended by its only
\* newline, and the step that follows the write is the flush.
IsSingleLine(s) ==
  /\ s # <<>>
  /\ s[Len(s)] = LF
  /\ \A i \in 1..(Len(s) - 1) : s[i] # LF

C10_SingleLineThenFlush ==
  /\ [](pc \in {"flush", "perr_flush"} => IsSingleLine(chunk))
  /\ [](ev \in {"written", "perr_written"} <=> pc \in {"flush", "perr_flush"})
  /\ [][pc = "flush" => ev' \in {"flushed", "flush_raised"}]_vars
  /\ [][pc = "perr_flush" => ev' \in {"perr_flushed", "perr_flush_raised"}]_vars

C10_Witness ==
  /\ pc = "flush"
  /\ response.o.id = JStr(STR_MULTILINE)
  /\ HasResult(response)
  /\ \E i \in 1..(Len(chunk) - 1) : chunk[i] = BSLASH /\ chunk[i + 1] = "n"

\* the engines HandleRequest draws from produce every outcome that some
\* engine can produce for the request
EnginesForCovers ==
  pc = "handle" =>
    LET a == [rag |-> rag, initialized |-> initialized, constructed |-> constructed]
    IN {handle_request(request, a, config, modules, e) : e \in EnginesFor(request)}
         = {handle_request(request, a, config, modules, e) : e \in Engines}

\* the method of a request object, None when it has none
MethodOf(req) == Get(req, "method", JNull)
IsMethod(req, m) == req.t = "obj" /\ MethodOf(req) = JStr(<<m>>)
IsRegistered(req) == \E m \in MethodNames : IsMethod(req, m)
AdapterUnchanged == rag' = rag /\ initialized' = initialized /\ constructed' = constructed
Constructs(calls) == \E i \in DOMAIN calls : calls[i].op = "LightRAG"
EndsWith(s, suffix) ==
  /\ Len(s) >= Len(suffix)
  /\ SubSeq(s, Len(s) - Len(suffix) + 1, Len(s)) = suffix

\* C11: a blank line (empty or whitespace only) gets no response and no
\* handler, leaves rag, _initialized and stdout as they are, and the loop is
\* back at reading the next line.
C11_BlankLineSkipped ==
  /\ [](\A k \in DOMAIN hist :
          hist[k].kind = "blank" => (hist[k].resp = "none" /\ Answers(k) = {}))
  /\ [](ev = "blank" => (pc = "read" /\ trace = NoTrace /\ response = JNull))
  /\ [][ev' = "blank" => (AdapterUnchanged /\ out' = out)]_vars

C11_Witness ==
  /\ Len(hist) = 2
  /\ hist[1] = [kind |-> "obj", resp |-> "result"]
  /\ hist[2].kind = "blank"
  /\ ev = "blank"
  /\ initialized
  /\ Cardinality(Answers(1)) = 1

\* C13: a request whose method is not one of the eight registered names is
\* answered with a -32603 error whose message ends with the method, without
\* running a handler, calling the engine or touching rag and _initialized.
C13_UnknownMethod ==
  [][(pc = "handle" /\ request.t = "obj" /\ ~IsRegistered(request)) =>
       /\ pc' = "write"
       /\ HasError(response')
       /\ CodeOf(response') = INTERNAL_ERROR
       /\ EndsWith(response'.o.error.o.message.s, PyStr(MethodOf(request)))
       /\ trace' = NoTrace
       /\ AdapterUnchanged]_vars

C13_Witness ==
  /\ pc = "write"
  /\ IsMethod(request, "delete_everything")
  /\ ev = "handler_raised"
  /\ CodeOf(response) = INTERNAL_ERROR
  /\ ~initialized
  /\ rag = NoRag

\* the parameter names a handler declares, and those it requires
DeclaredParams(m) ==
  IF m \in {"ping", "get_indexing_status"} THEN {} ELSE Required(m) \cup DOMAIN Defaults(m)
RequiredParams(m) ==
  IF m \in {"ping", "get_indexing_status"} THEN {} ELSE Required(m)
KeysMismatch(m, params) ==
  /\ params.t = "obj"
  /\ \/ DOMAIN params.o \ DeclaredParams(m) # {}
     \/ RequiredParams(m) \ DOMAIN params.o # {}

\* C14: for each of the eight methods, a request whose params keys do not
\* match the handler's declared parameters is answered with an application
\* error.
C14_KeyMismatchIsError ==
  \A m \in MethodNames :
    (pc = "write" /\ IsMethod(request, m) /\ KeysMismatch(m, Get(request, "params", JObj(<<>>))))
      => (HasError(response) /\ CodeOf(response) = INTERNAL_ERROR)

\* C15: a request without params is handled exactly as the same request
\* with params = {}: same handler, same engine calls, same response, same
\* adapter state, for every outcome of the engine.
WithEmptyParams(req) ==
  JObj([k \in DOMAIN req.o \cup {"params"} |-> IF k = "params" THEN JObj(<<>>) ELSE req.o[k]])

C15_OmittedParamsAreEmpty ==
  (pc = "handle" /\ request.t = "obj" /\ "params" \notin DOMAIN request.o) =>
    \A eng \in Engines :
      LET a == [rag |-> rag, initialized |-> initialized, constructed |-> constructed]
      IN handle_request(request, a, config, modules, eng)
           = handle_request(WithEmptyParams(request), a, config, modules, eng)

C15_Witness ==
  /\ pc = "write"
  /\ IsMethod(request, "get_indexing_status")
  /\ "params" \notin DOMAIN request.o
  /\ HasResult(response)
  /\ trace.handler = "get_indexing_status"

\* C16: a ping request is always answered with the result "pong"; it makes
\* no engine call and leaves rag and _initialized unchanged.
C16_PingIsPure ==
  [][(pc = "handle" /\ IsMethod(request, "ping")) =>
       /\ pc' = "write"
       /\ HasResult(response')
       /\ ~HasError(response')
       /\ response'.o.result = JStr(<<"pong">>)
       /\ trace' = [handler |-> "ping", calls |-> <<>>]
       /\ AdapterUnchanged]_vars

C16_Witness ==
  /\ pc = "write"
  /\ IsMethod(request, "ping")
  /\ response.o.result = JStr(<<"pong">>)
  /\ Len(hist) = 2
  /\ hist[1] = [kind |-> "obj", resp |-> "error"]
  /\ ~initialized
  /\ rag = NoRag

\* C17: every response envelope carries "2.0" in its jsonrpc field.
C17_VersionConstant ==
  InFlight => response.o.jsonrpc = JStr(<<"2.0">>)

\* C18: at most one LightRAG instance is ever constructed; once
\* _initialized is set it stays set, rag keeps its instance and no later
\* request calls the constructor again.
C18_ConstructedAtMostOnce ==
  /\ [](constructed <= 1)
  /\ [](initialized => rag.instance = 1)
  /\ [][initialized => (initialized' /\ rag' = rag /\ constructed' = constructed
                        /\ (trace' # trace => ~Constructs(trace'.calls)))]_vars

C18_Witness ==
  /\ pc = "write"
  /\ Len(hist) = 2
  /\ hist[1] = [kind |-> "obj", resp |-> "result"]
  /\ trace.handler = "search_code"
  /\ Len(trace.calls) = 1
  /\ trace.calls[1].op = "aquery"
  /\ constructed = 1
  /\ rag.instance = 1

\* C20: _initialized implies rag is not None, a handler that ensured
\* readiness and returned leaves a non-null rag, and rag never becomes None
\* again.
C20_InitializedImpliesHandle ==
  /\ [](initialized => rag # NoRag)
  /\ []((ev = "handler_returned" /\ trace.handler \notin {"", "ping"}) =>
          (initialized /\ rag # NoRag))
  /\ [][rag # NoRag => rag' # NoRag]_vars

C20_Witness ==
  /\ pc = "write"
  /\ Len(hist) = 2
  /\ hist[1] = [kind |-> "obj", resp |-> "result"]
  /\ hist[2] = [kind |-> "obj", resp |-> "error"]
  /\ Constructs(trace.calls) = FALSE
  /\ trace.handler = "search_code"
  /\ initialized
  /\ rag # NoRag

\* The run loop under fair scheduling: the event loop keeps running the run
\* coroutine, every awaited call returns, and stdin, being finite, delivers
\* end-of-stream after its last line.
FairSpec == Spec /\ WF_vars(Next)

\* C12 as stated: every run over a finite input ends by leaving the loop
\* at end-of-stream.
C12_TerminatesCleanly == <>(pc = "done")

\* C12, amended: every run over a finite input ends; it ends at
\* end-of-stream with every line handled unless writing or flushing a parse
\* error response raised, and a failed request by itself never ends it.
C12_TerminatesUnlessStdoutFails ==
  /\ <>(pc \in {"done", "crashed"})
  /\ [](pc = "crashed" => ev \in {"perr_write_raised", "perr_flush_raised"})
  /\ [](pc = "done" => ev = "eof")
  /\ [][pc' = "done" => (pc \in {"read", "done"} /\ hist' = hist)]_vars
  /\ [][ev' \in {"decode_error", "handler_raised", "handle_escaped"} =>
          pc' \in {"read", "write", "perr_write"}]_vars
  /\ []((\A k \in DOMAIN hist : hist[k].resp # "parse_error") => pc # "crashed")

C12_Witness ==
  /\ pc = "done"
  /\ ev = "eof"
  /\ Len(hist) = 2
  /\ hist[1] = [kind |-> "obj", resp |-> "error"]
  /\ hist[2].resp = "parse_error"
  /\ Cardinality(DOMAIN out) = 2

\* ---------------------------------------------------------------------
\* Handler coroutines sharing one adapter on one asyncio event loop.  A
\* coroutine runs until it suspends; `await self.initialize()` awaits a
\* coroutine whose body holds no await, so the only suspension point of a
\* handler is its awaited engine call.
NumTasks == 2
Tasks == 1..NumTasks

\* initialize suspending while the engine is being constructed
SuspensionPointsInInitialize == {"engine", "construct"}

\* the positions of a handler at which control returns to the event loop
SuspensionPoints == {"engine"}

\* the coroutine that runs after task i has done the step named p
Yield(i, p) == IF p \in SuspensionPoints THEN 0 ELSE i

runVars == <<pc, line, request, response, chunk, hist, out, ev, trace, config, modules, call>>

InitConc ==
  /\ pc = "handle"
  /\ line = EOFLine
  /\ request = JNull
  /\ response = JNull
  /\ chunk = <<>>
  /\ rag = NoRag
  /\ initialized = FALSE
  /\ config \in Configs
  /\ modules \in Modules
  /\ hist = <<>>
  /\ out = <<>>
  /\ ev = "start"
  /\ trace = NoTrace
  /\ constructed = 0
  /\ tasks = [i \in Tasks |-> "check"]
  /\ running = 0
  /\ call = NoCall

\* the event loop resumes a coroutine that is ready
Schedule(i) ==
  /\ running = 0
  /\ tasks[i] \notin {"done", "failed"}
  /\ running' = i
  /\ UNCHANGED <<tasks, rag, initialized, constructed>>
  /\ UNCHANGED runVars

\* line 61: if self._initialized: return
TaskCheck(i) ==
  /\ running = i
  /\ tasks[i] = "check"
  /\ tasks' = [tasks EXCEPT ![i] = IF initialized THEN "engine" ELSE "construct"]
  /\ running' = Yield(i, "check")
  /\ UNCHANGED <<rag, initialized, constructed>>
  /\ UNCHANGED runVars

\* lines 66-112: backend selection and self.rag = LightRAG(...)
TaskConstruct(i) ==
  /\ running = i
  /\ tasks[i] = "construct"
  /\ \/ /\ rag' = NewRag(constructed + 1, config, modules)
        /\ constructed' = constructed + 1
        /\ tasks' = [tasks EXCEPT ![i] = "setflag"]
        /\ running' = Yield(i, "construct")
     \/ /\ tasks' = [tasks EXCEPT ![i] = "failed"]
        /\ running' = 0
        /\ UNCHANGED <<rag, constructed>>
  /\ UNCHANGED initialized
  /\ UNCHANGED runVars

\* line 114: self._initialized = True
TaskSetFlag(i) ==
  /\ running = i
  /\ tasks[i] = "setflag"
  /\ initialized' = TRUE
  /\ tasks' = [tasks EXCEPT ![i] = "engine"]
  /\ running' = Yield(i, "setflag")
  /\ UNCHANGED <<rag, constructed>>
  /\ UNCHANGED runVars

\* the handler's `await self.rag.aquery(...)` / `ainsert(...)`
TaskAwaitEngine(i) ==
  /\ running = i
  /\ tasks[i] = "engine"
  /\ tasks' = [tasks EXCEPT ![i] = "resume"]
  /\ running' = Yield(i, "engine")
  /\ UNCHANGED <<rag, initialized, constructed>>
  /\ UNCHANGED runVars

\* the engine call returns or raises and the handler ends
TaskReturn(i) ==
  /\ running = i
  /\ tasks[i] = "resume"
  /\ \E o \in {"done", "failed"} : tasks' = [tasks EXCEPT ![i] = o]
  /\ running' = 0
  /\ UNCHANGED <<rag, initialized, constructed>>
  /\ UNCHANGED runVars

NextConc ==
  \E i \in Tasks :
    \/ Schedule(i)
    \/ TaskCheck(i)
    \/ TaskConstruct(i)
    \/ TaskSetFlag(i)
    \/ TaskAwaitEngine(i)
    \/ TaskReturn(i)

ConcSpec == InitConc /\ [][NextConc]_vars

\* C19: however the coroutines interleave at their suspension points, at
\* most one LightRAG instance is constructed, and only by a coroutine that
\* found _initialized unset while no other coroutine was inside initialize.
C19_ConcurrentInitializeOnce ==
  /\ constructed <= 1
  /\ Cardinality({i \in Tasks : tasks[i] \in {"construct", "setflag"}}) <= 1
  /\ (\E i \in Tasks : tasks[i] \in {"construct", "setflag"}) => ~initialized
  /\ (\E i \in Tasks : tasks[i] = "setflag") => running # 0

C19_Witness ==
  /\ constructed = 1
  /\ initialized
  /\ Cardinality({i \in Tasks : tasks[i] = "resume"}) >= 2
  /\ running = 0

\* ---------------------------------------------------------------------
\* The adapter driven directly, as src/python/test_wrapper.py drives it: an
\* adapter is built from a configuration and handle_request is awaited with
\* one request after another.  Configurations, module availability, path
\* lists and keyword lists vary here more widely than under Spec.

\* the storage settings an adapter can be built with: none, both stores, a
\* graph endpoint without its password, the vector store alone, and an
\* empty vector address with a password but no graph endpoint
AllConfigs ==
  Configs \cup {Config(JNull, NEO4J, JNull),
                Config(MILVUS, JNull, JNull),
                Config(JStr(<<>>), JNull, JStr(<<"pass">>))}

AllModules == [neo4j : BOOLEAN, milvus : BOOLEAN]

Files == {FILE_A, FILE_BAD, FILE_MISSING}
\* every list of at most MaxPaths paths
PathLists == UNION {[1..n -> {JStr(f) : f \in Files}] : n \in 0..MaxPaths}

\* params beyond MethodParams: every path list, keyword lists given, empty
\* and absent, and a text whose insertion is reported
DirectParams ==
  {[method |-> Present(JStr(<<"index_files">>)),
    params |-> Present(JObj([file_paths |-> JList(l)]))] : l \in PathLists}
  \cup {[method |-> Present(JStr(<<"search_code">>)), params |-> Present(p)] :
          p \in {JObj([query |-> JStr(<<"q">>), hl_keywords |-> JList(<<JStr(<<"auth">>)>>),
                       ll_keywords |-> JList(<<>>)]),
                 JObj([query |-> JStr(<<"q">>), ll_keywords |-> JList(<<JStr(<<"login">>)>>),
                       only_context |-> JBool(TRUE), mode |-> JStr(<<"global">>)]),
                 JObj([query |-> JStr(STR_MULTILINE), top_k |-> JInt(0),
                       response_type |-> JStr(<<"Single Paragraph">>),
                       max_token_for_text_unit |-> JInt(100),
                       max_token_for_global_context |-> JInt(200),
                       max_token_for_local_context |-> JInt(300)])}}
  \cup {[method |-> Present(JStr(<<"get_relationships">>)), params |-> Present(p)] :
          p \in {JObj([entity_name |-> JStr(<<"E">>), relation_type |-> JNull]),
                 JObj([entity_name |-> JStr(STR_MULTILINE), relation_type |-> JStr(<<>>),
                       depth |-> JInt(3)])}}

DirectRequests ==
  {MkObj([jsonrpc |-> Present(JStr(<<"2.0">>)), id |-> i,
          method |-> mp.method, params |-> mp.params]) :
     i \in {Present(JInt(7)), Present(JStr(<<"req-1">>))}, mp \in MethodParams \cup DirectParams}

\* an engine answer longer than the 100 characters a diagram node shows
LONG_TEXT == [i \in 1..101 |-> IF i = 101 THEN "y" ELSE "x"]

\* the engines a direct call can meet: those of EnginesFor and, for a
\* diagram, one whose answer is long
DirectEnginesFor(req) ==
  EnginesFor(req)
  \cup IF IsMethod(req, "visualize_subgraph")
       THEN {[QuietEngine EXCEPT !.text = LONG_TEXT]}
       ELSE {}

adapterVars == <<line, chunk, hist, out, ev, config, modules, tasks, running>>

\* the adapter after __init__, before any request
InitDirect ==
  /\ pc = "ready"
  /\ line = EOFLine
  /\ request = JNull
  /\ response = JNull
  /\ chunk = <<>>
  /\ rag = NoRag
  /\ initialized = FALSE
  /\ config \in AllConfigs
  /\ modules \in AllModules
  /\ hist = <<>>
  /\ out = <<>>
  /\ ev = "start"
  /\ trace = NoTrace
  /\ constructed = 0
  /\ tasks = <<>>
  /\ running = 0
  /\ call = NoCall

\* handle_request is called with a request; the engine this call will meet
\* is fixed by the environment
Submit ==
  /\ pc = "ready"
  /\ \E req \in DirectRequests :
       \E eng \in DirectEnginesFor(req) :
         /\ request' = req
         /\ call' = [NoCall EXCEPT !.eng = eng,
                                   !.before = [rag |-> rag, initialized |-> initialized,
                                               constructed |-> constructed],
                                   !.after_failure = call.after_failure]
  /\ pc' = "called"
  /\ UNCHANGED <<response, trace, rag, initialized, constructed>>
  /\ UNCHANGED adapterVars

\* a handle_request that stores the reported default in the configuration
ServeStoresDefaults ==
  /\ pc = "called"
  /\ \E h \in {handle_request(request, call.before, config, modules, call.eng)},
        d \in {Dispatch(Get(request, "method", JNull), Get(request, "params", DefaultParams),
                        call.before, config, modules, call.eng)} :
        /\ ~h.escaped
        /\ rag' = h.a.rag
        /\ initialized' = h.a.initialized
        /\ constructed' = h.a.constructed
        /\ response' = h.response
        /\ trace' = [handler |-> h.handler, calls |-> h.calls]
        /\ call' = [call EXCEPT !.raised = d.raised, !.exc = d.exc, !.msg = d.msg]
        /\ config' = IF h.handler = "get_indexing_status" /\ ~Truthy(config.milvus_address)
                     THEN [config EXCEPT !.milvus_address = JStr(<<"NanoVectorDB">>)]
                     ELSE config
  /\ pc' = "returned"
  /\ UNCHANGED <<request, line, chunk, hist, out, ev, modules, tasks, running>>

\* lines 335-379: the body of handle_request; call records what the
\* dispatch chain raised, if anything
Serve ==
  /\ pc = "called"
  /\ \E h \in {handle_request(request, call.before, config, modules, call.eng)},
        d \in {Dispatch(Get(request, "method", JNull), Get(request, "params", DefaultParams),
                        call.before, config, modules, call.eng)} :
        /\ ~h.escaped
        /\ rag' = h.a.rag
        /\ initialized' = h.a.initialized
        /\ constructed' = h.a.constructed
        /\ response' = h.response
        /\ trace' = [handler |-> h.handler, calls |-> h.calls]
        /\ call' = [call EXCEPT !.raised = d.raised, !.exc = d.exc, !.msg = d.msg]
  /\ pc' = "returned"
  /\ UNCHANGED request
  /\ UNCHANGED adapterVars

\* the awaited call has returned; the caller goes on to its next request.
\* call.after_failure remembers whether the call just made ended with a
\* failed engine construction
Resume ==
  /\ pc = "returned"
  /\ pc' = "ready"
  /\ request' = JNull
  /\ response' = JNull
  /\ trace' = NoTrace
  /\ call' = [NoCall EXCEPT !.after_failure = Constructs(trace.calls) /\ ~initialized]
  /\ UNCHANGED <<rag, initialized, constructed>>
  /\ UNCHANGED adapterVars

NextDirect == Submit \/ Serve \/ Resume

DirectSpec == InitDirect /\ [][NextDirect]_vars

\* what the last direct call was and how it went
Returned(m) == pc = "returned" /\ IsMethod(request, m)
Args(m) == Bind(m, Get(request, "params", DefaultParams), call.before)
Bound(m) == ~Args(m).raised
\* the engine was there, or could be built, when the call needed it
Ready == call.before.initialized \/ call.eng.ctor = "ok"
Result == response.o.result

\* C21 as stated: with the backend modules available, the graph backend is
\* selected exactly when the graph endpoint is configured and the vector
\* backend exactly when the vector endpoint is configured.
C21_SelectedIffEndpoint ==
  (initialized /\ modules.neo4j /\ modules.milvus) =>
    /\ rag.graph_storage = "Neo4JStorage" <=> Truthy(config.neo4j_uri)
    /\ rag.vector_storage = "MilvusVectorDBStorage" <=> Truthy(config.milvus_address)

\* C21, amended: with the backend modules available, the backends of the
\* constructed engine depend on the configuration alone: the graph backend is
\* Neo4J exactly when both the graph endpoint and its password are set, the
\* vector backend Milvus exactly when the vector address is set, and the
\* default otherwise, whatever requests and engine outcomes came before.
C21_SelectedIffConfigured ==
  (initialized /\ modules.neo4j /\ modules.milvus) =>
    /\ rag.graph_storage =
         IF Truthy(config.neo4j_uri) /\ Truthy(config.neo4j_password)
         THEN "Neo4JStorage" ELSE "default"
    /\ rag.vector_storage =
         IF Truthy(config.milvus_address) THEN "MilvusVectorDBStorage" ELSE "default"

C21_Witness ==
  /\ pc = "returned"
  /\ initialized
  /\ Constructs(trace.calls)
  /\ modules.neo4j /\ modules.milvus
  /\ config = Config(JNull, NEO4J, JNull)
  /\ rag.graph_storage = "default"

\* C22: a configured backend whose module cannot be imported is replaced by
\* the default one: the engine is still constructed and the adapter marked
\* initialized, and the response to the request is the one the same request
\* gets when every module is available.
C22_FallbackToDefault ==
  pc = "returned" =>
    /\ (Constructs(trace.calls) /\ call.eng.ctor = "ok") =>
         /\ initialized
         /\ rag.instance = 1
         /\ ~modules.neo4j => rag.graph_storage = "default"
         /\ ~modules.milvus => rag.vector_storage = "default"
    /\ \A mods \in AllModules :
         LET h == handle_request(request, call.before, config, mods, call.eng)
         IN h.response = response /\ h.a.initialized = initialized

C22_Witness ==
  /\ pc = "returned"
  /\ config = Config(MILVUS, NEO4J, JStr(<<"pass">>))
  /\ modules = [neo4j |-> FALSE, milvus |-> FALSE]
  /\ Constructs(trace.calls)
  /\ initialized
  /\ HasResult(response)
  /\ rag = [instance |-> 1, graph_storage |-> "default", vector_storage |-> "default"]

\* C23: a result of index_files has success_count + error_count = total,
\* total = the length of file_paths and error_count = the length of errors.
C23_CountsAddUp ==
  (Returned("index_files") /\ HasResult(response)) =>
    /\ Result.o.success_count.n + Result.o.error_count.n = Result.o.total.n
    /\ Result.o.total.n = Len(request.o.params.o.file_paths.l)
    /\ Result.o.error_count.n = Len(Result.o.errors.l)

C23_Witness ==
  /\ Returned("index_files")
  /\ HasResult(response)
  /\ request.o.params.o.file_paths.l = <<JStr(FILE_A), JStr(FILE_MISSING)>>
  /\ Result.o.success_count = JInt(1)
  /\ Result.o.error_count = JInt(1)
  /\ Result.o.total = JInt(2)

\* the positions of file_paths whose content reached the engine and was
\* inserted
Inserted(paths) ==
  {i \in DOMAIN paths : PathReadable(PyStr(paths[i])) /\ call.eng.ins[i] = "ok"}
Readable(paths) == {i \in DOMAIN paths : PathReadable(PyStr(paths[i]))}
Inserts(calls) == {i \in DOMAIN calls : calls[i].op = "ainsert"}

\* C24: once the engine is there, index_files returns a result whatever
\* happens to single files: every readable path is handed to the engine,
\* also after a failing one, success_count counts the inserted paths and
\* error_count the others.
C24_BatchNeverAborts ==
  (Returned("index_files") /\ Bound("index_files") /\ Ready) =>
    LET paths == Args("index_files").value.file_paths.l
    IN /\ HasResult(response)
       /\ ~call.raised
       /\ Result.o.success_count.n = Cardinality(Inserted(paths))
       /\ Result.o.error_count.n = Len(paths) - Cardinality(Inserted(paths))
       /\ Cardinality(Inserts(trace.calls)) = Cardinality(Readable(paths))

C24_Witness ==
  /\ Returned("index_files")
  /\ HasResult(response)
  /\ request.o.params.o.file_paths.l = <<JStr(FILE_MISSING), JStr(FILE_A)>>
  /\ Result.o.success_count = JInt(1)
  /\ Result.o.error_count = JInt(1)
  /\ Result.o.total = JInt(2)

\* C25: a bound insert_text call never raises: the response always has
\* result set, with success = false when the engine failed.
C25_InsertTextNeverRaises ==
  (Returned("insert_text") /\ Bound("insert_text")) =>
    /\ HasResult(response)
    /\ ~HasError(response)
    /\ (call.eng.ctor = "raise" /\ ~call.before.initialized)
         => Result.o.success = JBool(FALSE)

QueryMethods == {"search_code", "get_entity", "get_relationships", "visualize_subgraph"}

\* C26: when rag.aquery raises inside one of the four query handlers, the
\* caller gets an error response with code -32603, the request's id and the
\* failure's text, and no result.
C26_QueryFailurePropagates ==
  \A m \in QueryMethods :
    (Returned(m) /\ Bound(m) /\ Ready /\ call.eng.op = "raise") =>
      /\ HasError(response)
      /\ ~HasResult(response)
      /\ CodeOf(response) = INTERNAL_ERROR
      /\ response.o.id = request.o.id
      /\ response.o.error.o.message = JStr(call.eng.text)
      /\ trace.handler = m
      /\ trace.calls[Len(trace.calls)].op = "aquery"

C26_Witness ==
  /\ Returned("search_code")
  /\ Bound("search_code")
  /\ call.eng.op = "raise"
  /\ initialized
  /\ HasError(response)
  /\ response.o.id = JStr(<<"req-1">>)

\* C27 as stated: the status reports initialized = true, the working
\* directory, a non-negative size and storage_backends with the keys vector
\* and graph, each the configured endpoint or "default".
C27_StatusAsStated ==
  (Returned("get_indexing_status") /\ HasResult(response)) =>
    /\ Result.o.initialized = JBool(TRUE)
    /\ Result.o.working_dir = JStr(PathStr(config.working_dir.s))
    /\ Result.o.working_dir_size_bytes.n >= 0
    /\ Result.o.storage_backends =
         JObj([vector |-> IF Truthy(config.milvus_address)
                          THEN config.milvus_address ELSE JStr(<<"default">>),
               graph |-> IF Truthy(config.neo4j_uri)
                         THEN config.neo4j_uri ELSE JStr(<<"default">>)])

\* C27, amended: once the engine is there, get_indexing_status returns, with
\* _initialized set, initialized = true, the normalised working directory,
\* the non-negative size and storage_backends with the keys milvus and
\* neo4j, each the configured endpoint or the name of the default backend
\* (NanoVectorDB, NetworkX).
C27_StatusReported ==
  (Returned("get_indexing_status") /\ Ready) =>
    /\ HasResult(response)
    /\ initialized
    /\ DOMAIN Result.o = {"initialized", "working_dir", "working_dir_size_bytes",
                          "storage_backends"}
    /\ Result.o.initialized = JBool(TRUE)
    /\ Result.o.working_dir = JStr(PathStr(config.working_dir.s))
    /\ Result.o.working_dir_size_bytes = JInt(call.eng.size)
    /\ Result.o.working_dir_size_bytes.n >= 0
    /\ Result.o.storage_backends =
         JObj([milvus |-> IF Truthy(config.milvus_address)
                          THEN config.milvus_address ELSE JStr(<<"NanoVectorDB">>),
               neo4j |-> IF Truthy(config.neo4j_uri)
                         THEN config.neo4j_uri ELSE JStr(<<"NetworkX">>)])

C27_Witness ==
  /\ Returned("get_indexing_status")
  /\ ~call.before.initialized
  /\ HasResult(response)
  /\ Result.o.initialized = JBool(TRUE)
  /\ Result.o.working_dir = JStr(<<"dev-data">>)
  /\ Result.o.working_dir_size_bytes = JInt(4096)
  /\ Result.o.storage_backends.o.milvus = MILVUS
  /\ Result.o.storage_backends.o.neo4j = JStr(<<"NetworkX">>)

\* C28: no step changes the configuration captured by __init__: after any
\* sequence of requests every field has the value it was constructed with.
C28_ConfigurationReadOnly == [][config' = config]_vars

C28_Witness ==
  /\ Returned("get_indexing_status")
  /\ call.before.initialized
  /\ HasResult(response)
  /\ config = Config(JStr(<<>>), JNull, JStr(<<"pass">>))
  /\ Result.o.storage_backends.o.milvus = JStr(<<"NanoVectorDB">>)

\* C29: the error of an application error response has as message exactly
\* the text of the exception the dispatch raised and as data the name of its
\* class; a parse error response has the fixed message "Parse error" and the
\* text of the decoding error as data.
C29_ErrorsCarryTextAndKind ==
  /\ [][(pc = "handle" /\ pc' = "write" /\ HasError(response')) =>
          \E eng \in EnginesFor(request) :
            LET d == Dispatch(MethodOf(request), Get(request, "params", DefaultParams),
                              [rag |-> rag, initialized |-> initialized,
                               constructed |-> constructed],
                              config, modules, eng)
            IN /\ d.raised
               /\ d.a.initialized = initialized'
               /\ trace'.calls = d.calls
               /\ response'.o.error.o.message = JStr(d.msg)
               /\ response'.o.error.o.data = JObj([type |-> JStr(<<d.exc>>)])]_vars
  /\ [](pc \in {"perr_write", "perr_flush"} =>
          /\ response.o.error.o.message = JStr(<<"Parse error">>)
          /\ response.o.error.o.data = JStr(<<"Expecting value">>))

C29_Witness ==
  /\ pc = "write"
  /\ HasError(response)
  /\ IsMethod(request, "get_entity")
  /\ Len(trace.calls) = 2
  /\ response.o.error.o.message = JStr(<<"line 1", LF, "line 2">>)
  /\ response.o.error.o.data = JObj([type |-> JStr(<<"RuntimeError">>)])

\* C30: a bound search_code call with the engine there makes exactly one
\* aquery call, with the request's query and a QueryParam holding the seven
\* fields of the request (defaults filled in); a keyword list is in the
\* QueryParam only if the request gave one, and is that list; when the query
\* succeeds the result is {answer, query, mode, top_k} with the request's
\* query, mode and top_k.
C30_SearchForwardsOneQuery ==
  (Returned("search_code") /\ Bound("search_code") /\ Ready) =>
    LET args == Args("search_code").value
        given == Get(request, "params", DefaultParams).o
        queries == {i \in DOMAIN trace.calls : trace.calls[i].op = "aquery"}
        q == trace.calls[Len(trace.calls)].arg
    IN /\ Cardinality(queries) = 1
       /\ Inserts(trace.calls) = {}
       /\ q.query = args.query
       /\ q.param.mode = args.mode
       /\ q.param.only_need_context = args.only_context
       /\ q.param.top_k = args.top_k
       /\ q.param.response_type = args.response_type
       /\ q.param.max_token_for_text_unit = args.max_token_for_text_unit
       /\ q.param.max_token_for_global_context = args.max_token_for_global_context
       /\ q.param.max_token_for_local_context = args.max_token_for_local_context
       /\ \A k \in {"hl_keywords", "ll_keywords"} :
            /\ k \in DOMAIN q.param => (k \in DOMAIN given /\ q.param[k] = given[k])
            /\ (k \in DOMAIN given /\ Truthy(given[k])) => k \in DOMAIN q.param
       /\ call.eng.op = "ok" =>
            /\ HasResult(response)
            /\ Result = JObj([answer |-> JStr(call.eng.text), query |-> args.query,
                              mode |-> args.mode, top_k |-> args.top_k])

C30_Witness ==
  /\ Returned("search_code")
  /\ HasResult(response)
  /\ "hl_keywords" \in DOMAIN request.o.params.o
  /\ "hl_keywords" \in DOMAIN trace.calls[Len(trace.calls)].arg.param
  /\ "ll_keywords" \notin DOMAIN trace.calls[Len(trace.calls)].arg.param
  /\ Result.o.mode = JStr(<<"hybrid">>)
  /\ Result.o.top_k = JInt(10)

\* C31: once the engine is there, get_relationships sends one query in local
\* mode; when the query succeeds the result carries the request's entity_name
\* and depth unchanged (depth 1 when the request has none), and relation_type
\* is the requested value when one is given and "all" when it is absent.
C31_RelationshipsEchoRequest ==
  (Returned("get_relationships") /\ Bound("get_relationships") /\ Ready) =>
    LET given == Get(request, "params", DefaultParams).o
        queries == {i \in DOMAIN trace.calls : trace.calls[i].op = "aquery"}
        q == trace.calls[Len(trace.calls)].arg
    IN /\ Cardinality(queries) = 1
       /\ Inserts(trace.calls) = {}
       /\ q.param.mode = JStr(<<"local">>)
       /\ call.eng.op = "ok" =>
            /\ HasResult(response)
            /\ Result.o.entity_name = given.entity_name
            /\ Result.o.depth = IF "depth" \in DOMAIN given THEN given.depth ELSE JInt(1)
            /\ Result.o.relation_type =
                 IF "relation_type" \in DOMAIN given /\ Truthy(given.relation_type)
                 THEN given.relation_type ELSE JStr(<<"all">>)
            /\ Result.o.relationships = JStr(call.eng.text)

C31_Witness ==
  /\ Returned("get_relationships")
  /\ HasResult(response)
  /\ Result.o.relation_type = JStr(<<"calls">>)
  /\ Result.o.depth = JInt(2)
  /\ Result.o.entity_name = JStr(<<"E">>)

\* the default branch of C31: no relation_type in the request
C31_WitnessAll ==
  /\ Returned("get_relationships")
  /\ HasResult(response)
  /\ "relation_type" \notin DOMAIN request.o.params.o
  /\ Result.o.relation_type = JStr(<<"all">>)
  /\ Result.o.depth = JInt(1)

\* the diagram syntax a text is written in, by its header line
SyntaxOf(diagram) ==
  IF diagram = <<>> THEN "none"
  ELSE IF diagram[1] = "graph TD" THEN "mermaid"
  ELSE IF diagram[1] = "digraph G {" THEN "dot"
  ELSE "unknown"

\* the two-node Mermaid diagram of a query and an engine answer
MermaidDiagram(query, text) ==
  <<"graph TD", LF>>
  \o <<"    Query[", QUOTE>> \o query \o <<QUOTE, "]", LF>>
  \o <<"    Result[", QUOTE>> \o Prefix(text, 100) \o <<"...", QUOTE, "]", LF>>
  \o <<"    Query --> Result", LF>>

\* C32: once the engine is there, visualize_subgraph sends one query in
\* hybrid mode with top_k equal to max_nodes (20 when the request has none),
\* and when the query succeeds the diagram is written in the syntax named by
\* the request's format parameter ("mermaid" when the request has none).
C32_DiagramInRequestedSyntax ==
  (Returned("visualize_subgraph") /\ Bound("visualize_subgraph") /\ Ready) =>
    LET given == Get(request, "params", DefaultParams).o
        format == IF "format" \in DOMAIN given THEN given.format ELSE JStr(<<"mermaid">>)
        q == trace.calls[Len(trace.calls)].arg
    IN /\ q.param.mode = JStr(<<"hybrid">>)
       /\ q.param.top_k = IF "max_nodes" \in DOMAIN given THEN given.max_nodes ELSE JInt(20)
       /\ call.eng.op = "ok" =>
            /\ HasResult(response)
            /\ format = JStr(<<SyntaxOf(Result.o.diagram.s)>>)

\* what visualize_subgraph does instead: the query is as C32 says, the
\* diagram is the two-node Mermaid diagram with the answer cut to 100
\* characters, and format is only echoed in the result
C32_AlwaysMermaid ==
  (Returned("visualize_subgraph") /\ Bound("visualize_subgraph") /\ Ready) =>
    LET given == Get(request, "params", DefaultParams).o
        q == trace.calls[Len(trace.calls)].arg
    IN /\ Cardinality({i \in DOMAIN trace.calls : trace.calls[i].op = "aquery"}) = 1
       /\ q.param.mode = JStr(<<"hybrid">>)
       /\ q.param.top_k = IF "max_nodes" \in DOMAIN given THEN given.max_nodes ELSE JInt(20)
       /\ call.eng.op = "ok" =>
            /\ HasResult(response)
            /\ Result.o.diagram = JStr(MermaidDiagram(PyStr(given.query), call.eng.text))
            /\ Result.o.format = IF "format" \in DOMAIN given THEN given.format
                                 ELSE JStr(<<"mermaid">>)

\* a diagram whose result node shows a cut answer
C32_TruncatedWitness ==
  /\ Returned("visualize_subgraph")
  /\ HasResult(response)
  /\ call.eng.text = LONG_TEXT
  /\ \A i \in DOMAIN Result.o.diagram.s : Result.o.diagram.s[i] # LONG_TEXT[101]

\* C33: the storage_backends get_indexing_status reports agree with the
\* backends initialize selected: a store is reported as its configured
\* endpoint exactly when the engine was built with the external backend for
\* it, and as the default otherwise.
C33_ReportedAgreesWithSelected ==
  (Returned("get_indexing_status") /\ HasResult(response)) =>
    LET reported == Result.o.storage_backends.o
    IN /\ reported.neo4j = IF rag.graph_storage = "Neo4JStorage"
                           THEN config.neo4j_uri ELSE JStr(<<"NetworkX">>)
       /\ reported.milvus = IF rag.vector_storage = "MilvusVectorDBStorage"
                            THEN config.milvus_address ELSE JStr(<<"NanoVectorDB">>)

\* a status that names the graph endpoint although the engine was built on
\* the default graph store
C33_ReportedButNotSelected ==
  /\ Returned("get_indexing_status")
  /\ HasResult(response)
  /\ Result.o.storage_backends.o.neo4j = NEO4J
  /\ rag.graph_storage = "default"

\* the engine operations among the calls of a request
EngineOps(calls) == {i \in DOMAIN calls : calls[i].op \in {"ainsert", "aquery"}}

\* C34: the engine's insert and query operations are never invoked while
\* rag is None: before the first of them the handle was there when the
\* request arrived or the request has constructed it, and a request whose
\* initialize fails makes no engine call at all.
C34_NoEngineCallWithoutHandle ==
  pc = "returned" =>
    /\ \A i \in EngineOps(trace.calls) :
         \/ call.before.rag # NoRag
         \/ /\ call.eng.ctor = "ok"
            /\ \E j \in 1..(i - 1) : trace.calls[j].op = "LightRAG"
    /\ (call.before.rag = NoRag /\ call.eng.ctor = "raise") => EngineOps(trace.calls) = {}
    /\ EngineOps(trace.calls) # {} => rag # NoRag

C34_Witness ==
  /\ Returned("insert_text")
  /\ call.before.rag = NoRag
  /\ Len(trace.calls) = 2
  /\ trace.calls[1].op = "LightRAG"
  /\ trace.calls[2].op = "ainsert"
  /\ rag # NoRag

\* the failing branch of C34: construction was attempted and nothing else
C34_WitnessFailed ==
  /\ Returned("search_code")
  /\ call.before.rag = NoRag
  /\ call.eng.ctor = "raise"
  /\ Len(trace.calls) = 1
  /\ trace.calls[1].op = "LightRAG"
  /\ HasError(response)

\* the last direct call reached a handler that needs the engine
NeedsEngine ==
  \/ Returned("get_indexing_status")
  \/ \E m \in {"index_files", "insert_text"} \cup QueryMethods : Returned(m) /\ Bound(m)

\* C35: a request that needs the engine and finds the adapter uninitialized
\* attempts construction, also after an earlier request's construction
\* failed; when construction fails the adapter stays uninitialized with rag
\* None and the request gets an error response; the adapter is initialized
\* only with a constructed engine.
C35_FailedConstructionIsRetried ==
  /\ initialized <=> rag # NoRag
  /\ (NeedsEngine /\ ~call.before.initialized) =>
       /\ trace.calls # <<>>
       /\ trace.calls[1].op = "LightRAG"
       /\ call.eng.ctor = "raise" =>
            /\ ~initialized
            /\ rag = NoRag
            /\ Len(trace.calls) = 1
            /\ HasError(response)
            /\ response.o.error.o.code = JInt(-32603)
       /\ call.eng.ctor = "ok" => initialized /\ rag.instance = call.before.constructed + 1

\* a request after a failed construction constructs the engine
C35_Witness ==
  /\ NeedsEngine
  /\ call.after_failure
  /\ ~call.before.initialized
  /\ trace.calls[1].op = "LightRAG"
  /\ initialized
  /\ HasResult(response)

\* a construction that fails twice in a row
C35_WitnessFailedAgain ==
  /\ NeedsEngine
  /\ call.after_failure
  /\ call.eng.ctor = "raise"
  /\ ~initialized
  /\ HasError(response)

\* the handlers that handle_request calls with **params
BindingMethods == {"index_files", "insert_text"} \cup QueryMethods

\* C36: a request for one of the six handlers taking parameters whose params
\* miss a required key or carry an undeclared one fails before the handler
\* body runs: it gets an error response, the engine is not constructed, no
\* engine operation is invoked and the adapter state is as it was.
C36_BindingFailureBeforeBody ==
  \A m \in BindingMethods :
    (Returned(m) /\ KeysMismatch(m, Get(request, "params", DefaultParams))) =>
      /\ HasError(response)
      /\ response.o.error.o.data.o.type = JStr(<<"TypeError">>)
      /\ trace.calls = <<>>
      /\ rag = call.before.rag
      /\ initialized = call.before.initialized
      /\ constructed = call.before.constructed

C36_Witness ==
  /\ Returned("search_code")
  /\ KeysMismatch("search_code", Get(request, "params", DefaultParams))
  /\ "bogus" \in DOMAIN Get(request, "params", DefaultParams).o
  /\ ~call.before.initialized
  /\ call.eng.ctor = "ok"
  /\ HasError(response)
  /\ ~initialized

\* a required key is missing, on an adapter that is already initialized
C36_WitnessMissing ==
  /\ Returned("get_entity")
  /\ Get(request, "params", DefaultParams) = JObj(<<>>)
  /\ call.before.initialized
  /\ HasError(response)
  /\ trace.calls = <<>>

\* the elements of a set of indices, in increasing order
Ordered(S) ==
  CHOOSE f \in [1..Cardinality(S) -> S] : \A i, j \in DOMAIN f : i < j => f[i] < f[j]

\* the str s has p as a substring
Contains(s, p) == \E i \in 0..(Len(s) - Len(p)) : SubSeq(s, i + 1, i + Len(p)) = p

C37_WitnessInserted ==
  /\ Returned("index_files")
  /\ HasResult(response)
  /\ request.o.params.o.file_paths.l = <<JStr(FILE_MISSING), JStr(FILE_A)>>
  /\ Cardinality(Inserts(trace.calls)) = 1
  /\ call.eng.ins[2] = "ok"
  /\ Len(Result.o.errors.l) = 1

\* the code a response of the given kind carries on the output
CodeFor(resp) ==
  CASE resp = "result" -> 0
    [] resp = "error" -> -32603
    [] resp = "parse_error" -> -32700

C38_WitnessSkipped ==
  /\ Len(out) = 1
  /\ out[1].k = 2
  /\ hist[1] = [kind |-> "nonobj", resp |-> "none"]
  /\ hist[2].resp = "result"

====
